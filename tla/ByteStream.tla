----------------------------- MODULE ByteStream -----------------------------
(***************************************************************************)
(* What a consumer socket promises the application when it reads a byte    *)
(* stream (spec.md 4.F, read_callback): the content arrives as a growing   *)
(* prefix of its segments, in order and without repetition, in one or     *)
(* more readDataAvailable steps; read_success is signalled only once the   *)
(* whole content has been read; read_error ("producer unreachable") only   *)
(* before anything has been read.  After either, nothing more happens.     *)
(***************************************************************************)
EXTENDS Naturals, Sequences

CONSTANT Segments   \* the content: its segments in suffix order

VARIABLES
    read,     \* what the application has received so far
    result    \* "none", "success" (read_success) or "error" (read_error)

Done(r) == Len(r) = Len(Segments)

Init ==
    /\ read = <<>>
    /\ result = "none"

\* The next k segments reach the application; if that completes the
\* content, read_success may be signalled in the same step.
Read(k) ==
    /\ result = "none"
    /\ Len(read) + k <= Len(Segments)
    /\ read' = SubSeq(Segments, 1, Len(read) + k)
    /\ result' \in {"none"} \cup (IF Done(read') THEN {"success"} ELSE {})

Succeed ==
    /\ result = "none" /\ Done(read)
    /\ result' = "success"
    /\ UNCHANGED read

Fail ==
    /\ result = "none" /\ read = <<>>
    /\ result' = "error"
    /\ UNCHANGED read

Next ==
    \/ \E k \in 1 .. Len(Segments) : Read(k)
    \/ Succeed
    \/ Fail

Spec == Init /\ [][Next]_<<read, result>>

=============================================================================

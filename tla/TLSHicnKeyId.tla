----------------------------- MODULE TLSHicnKeyId -----------------------------
(***************************************************************************)
(* TLSProducerSocket::addHicnKeyIdCb, the OpenSSL custom extension (type   *)
(* 100) the TLS producer adds to its handshake: it draws a random 32-bit   *)
(* key id, sends the client an ip_prefix_t made of the namespace prefix    *)
(* followed by the key id (length + 32), and registers for itself the      *)
(* prefix obtained by grafting the key id into the namespace name under a  *)
(* one-word mask (spec.md 4.A, "mask-and-graft ... embed a 32-bit key-id   *)
(* into the suffix-adjacent bytes").                                       *)
(*                                                                         *)
(* An address is a function from bit positions to symbolic bits: bit i of *)
(* the namespace name, bit j of the key id, or an undetermined bit of the  *)
(* malloc'd buffer.  Byte and word offsets are kept as the code computes   *)
(* them (prefix_len / 8 and prefix_len / 32).                              *)
(***************************************************************************)
EXTENDS Naturals

CONSTANTS
    Families,   \* address families of the producer's namespace
    PrefixLens  \* namespace prefix lengths to try

AddrBits(f) == IF f = "AF_INET6" THEN 128 ELSE 32   \* IPv6 / IPv4 address length
KeyBits == 32                                       \* key_id_ is a uint32

NameBit(i) == <<"name", i>>     \* bit i of the namespace name (prefix.getName())
KeyBit(j)  == <<"key", j>>      \* bit j of key_id_ (RAND_bytes)
Undef(i)   == <<"undef", i>>    \* bit i of the malloc'd ip_prefix_t, never written

NoPrefix == [len |-> 0, address |-> <<>>]

VARIABLES
    family,       \* the namespace's address family
    prefix_len,   \* its prefix length (prefix.getPrefixLength())
    out_ip,       \* the ip_prefix_t handed to OpenSSL (*out): [len, address]
    registered,   \* the prefix passed to socket->registerPrefix: [len, address]
    pc            \* "extension", then "done" (return 1) or "thrown"

vars == <<family, prefix_len, out_ip, registered, pc>>

\* The ip_prefix_t sent to the client: prefix_len / 8 whole bytes of the
\* namespace address, then the 4 key-id bytes; len = prefix_len_bits + 32.
OutAddress(f, len) ==
    LET bytes == len \div 8 IN
    [i \in 0 .. AddrBits(f) - 1 |->
        IF i < 8 * bytes THEN NameBit(i)
        ELSE IF i < 8 * bytes + KeyBits THEN KeyBit(i - 8 * bytes)
        ELSE Undef(i)]

\* Prefix::getName(mask, keyId_component, name): the bytes under a non-zero
\* mask byte come from the component, the others from the name.  The mask
\* is 0xffffffff in word prefix_len / 32, and the component holds key_id_
\* in the same word.
Graft(f, len) ==
    LET w == len \div 32 IN
    [i \in 0 .. AddrBits(f) - 1 |->
        IF i \div 32 = w THEN KeyBit(i - 32 * w) ELSE NameBit(i)]

\* The extension is added: the out buffer is filled and the prefix length is
\* checked (after the memcpy) against the room left for a 32-bit key; a
\* namespace too long throws RuntimeException out of the OpenSSL callback.
\* Otherwise the grafted prefix, of length prefix_len + 32, is registered.
addHicnKeyIdCb ==
    /\ pc = "extension"
    /\ IF prefix_len > AddrBits(family) - KeyBits
          THEN pc' = "thrown" /\ UNCHANGED <<out_ip, registered>>
          ELSE /\ out_ip' = [len |-> prefix_len + KeyBits,
                             address |-> OutAddress(family, prefix_len)]
               /\ registered' = [len |-> prefix_len + KeyBits,
                                 address |-> Graft(family, prefix_len)]
               /\ pc' = "done"
    /\ UNCHANGED <<family, prefix_len>>

\* The producer's namespace: a family in Families, a prefix length in
\* PrefixLens that fits the family.
Init ==
    /\ family \in Families
    /\ prefix_len \in PrefixLens \cap 0 .. AddrBits(family)
    /\ out_ip = NoPrefix
    /\ registered = NoPrefix
    /\ pc = "extension"

Next == addHicnKeyIdCb

Spec == Init /\ [][Next]_vars

-----------------------------------------------------------------------------

\* The first n bits of an address: what a prefix of length n matches.
Bits(a, n) == [i \in 0 .. n - 1 |-> a[i]]

\* When the extension is added, the prefix the client is told (out_ip) and
\* the prefix the producer registers are the same prefix, it lies inside
\* the namespace, and its last 32 bits are the key id (spec.md 4.A: the key
\* id goes into the bytes adjacent to the suffix).
KeyIdPrefixAgrees ==
    pc = "done" =>
        /\ Bits(registered.address, registered.len) = Bits(out_ip.address, out_ip.len)
        /\ \A i \in 0 .. prefix_len - 1 : out_ip.address[i] = NameBit(i)
        /\ \A j \in 0 .. KeyBits - 1 : out_ip.address[prefix_len + j] = KeyBit(j)

=============================================================================

------------------------------ MODULE MCMsgBuf ------------------------------
\* Two buffers, each in a word of the lock control vector of its own; a
\* configuration whose first buffer grows with an operation of the second module,
\* one with the names and directions exchanged, and one that is too long.
EXTENDS AcmMsgBuf, TLC
CONSTANTS p1, p2, n1, n2

Op(name, opcode, length) == [name |-> name, opcode |-> opcode, length |-> length]

Shared == << <<Op(n1, "READ", 4), Op(n2, "INSERT", 5)>>, <<Op(n1, "READ", 9), Op(n2, "FORWARD", 0)>> >>
Exchanged == << <<Op(n2, "READ", 3)>>, <<Op(n1, "INSERT", 4)>> >>
TooLong == << <<Op(n2, "READ", 30)>>, <<>> >>

Users == {p1, p2}
OneEach == (p1 :> {0}) @@ (p2 :> {1})
UsersCalls == (p1 :> {"read", "write", "lock", "vector"}) @@ (p2 :> {"read", "overwritten", "lock", "unlock", "alias"})
AllNames == {n1, n2}
AllLayouts == {Shared, Exchanged, TooLong}
=============================================================================

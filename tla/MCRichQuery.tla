---------------------------- MODULE MCRichQuery ----------------------------
(* A small instance of RichQuery.                                          *)
EXTENDS RichQuery

CONSTANTS c1, c2, c3, b1, b2, p1, p2, r1, w1

ThreeCerts == {c1, c2, c3}
TwoPeers == {p1, p2}
ByNumber == [c \in ThreeCerts |-> CASE c = c1 -> 1 [] c = c2 -> 2 [] c = c3 -> 3]

Cert(body, open) == [body |-> body, isOpen |-> open, isCompleted |-> open,
                     isDeleted |-> FALSE, hasUpload |-> open]

Write(n, c, cert) == [id |-> <<w1, n>>, fcn |-> "postCertificate", certId |-> c, value |-> cert]

(* Three open certificates, and a draft that takes the place of one.       *)
FourWrites == {Write(1, c1, Cert(b1, TRUE)), Write(2, c2, Cert(b1, TRUE)),
               Write(3, c3, Cert(b2, TRUE)), Write(4, c2, Cert(b1, FALSE))}

(* The second write of c2 has the same second as that of c3; the first two   *)
(* may be ordered against their dates.                                     *)
Clock == [tx \in FourWrites |-> CASE tx.id[2] = 1 -> 1 [] tx.id[2] = 2 -> 1
                                  [] tx.id[2] = 3 -> 2 [] tx.id[2] = 4 -> 2]

Ask(list, size, index, bodies, open, login) ==
    [list |-> list, pageSize |-> size, pageIndex |-> index, bodies |-> bodies,
     isOpen |-> open, isLogin |-> login]

Queries == {Ask("open", 1, index, {b1, b2}, FALSE, FALSE) : index \in {0, 2, 5}} \cup
           {Ask("open", 2, index, {b1, b2}, FALSE, FALSE) : index \in {1, 5}} \cup
           {Ask("open", size, 1, {b1, b2}, FALSE, FALSE) : size \in {-1, 0, 3}} \cup
           {Ask("draft", 1, 2, {b1}, FALSE, TRUE), Ask("deleted", 1, 1, {b1}, FALSE, FALSE)}
=============================================================================

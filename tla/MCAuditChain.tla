---------------------------- MODULE MCAuditChain ----------------------------
(* Small instances of AuditChain.  A hash is the sequence of the entries   *)
(* it covers, which makes hashes of different chains different.            *)
EXTENDS AuditChain

CONSTANTS w1, w2, d1, d2, p1, v1, r1   \* actors
CONSTANTS main, other, admin           \* processes

MCHash(entry, prev) == Append(prev, entry)
MCGenesis == <<>>

\* Two server processes, and a third that serves the requests to verify and
\* to repair.
Spread ==
  [a \in Actor |-> CASE a = w2 -> other
                     [] a \in Verifier \cup Repairer -> admin
                     [] OTHER -> main]

\* One process serves everything.
OneProcess == [a \in Actor |-> main]

EmptyLog == <<>>

\* Logs with one, two and three rows.
OneRow == <<[entry |-> 1, prev |-> MCGenesis]>>
TwoRows == Append(OneRow, [entry |-> 2, prev |-> MCHash(1, MCGenesis)])
ThreeRows == Append(TwoRows, [entry |-> 3, prev |-> MCHash(2, MCHash(1, MCGenesis))])
=============================================================================

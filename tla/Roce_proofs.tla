----------------------------- MODULE Roce_proofs -----------------------------
(***************************************************************************)
(* The RoCE engine, for every workload, read length, PSN space and size of *)
(* the retransmitter, and any number of faults and expirations: its list   *)
(* and its free list share the table, and as long as no entry is cut for a *)
(* response that is not its own, writes are executed in order and the      *)
(* responder tells the truth.                                              *)
(* The last part is about a connection that nothing disturbs: the list     *)
(* holds every request without an answer, and data goes to its address.    *)
(*                                                                         *)
(* The predicates about the requests take the values they speak of as      *)
(* parameters: R for reqs, S for psnOf, n for next, ep for epsn, W for     *)
(* written and B for bexh.                                                 *)
(***************************************************************************)
EXTENDS Roce, FiniteSetTheorems, TLAPS

KindSet == {"SEND", "ONLY", "FIRST", "LAST", "READ"}
OpSet == {"NONE", "SEND", "ONLY", "FIRST", "LAST", "READ", "ACK", "NAK",
          "RESP_ONLY", "RESP_FIRST", "RESP_MIDDLE", "RESP_LAST"}
Slot == 0 .. TableSize - 1

\* The PSNs follow each other from the first one, a request after the other,
\* and do not come round.
InPhase(R, S, n) ==
  /\ Len(S) = Len(R)
  /\ Distance(n) <= Len(R) * ReadPkgs
  /\ \A i \in 1 .. Len(R) : Distance(S[i]) + Pkgs(R[i]) <= Distance(n)
  /\ \A i, j \in 1 .. Len(R) : i < j => Distance(S[i]) + Pkgs(R[i]) <= Distance(S[j])
  /\ \A i \in 1 .. Len(R) - 1 : Distance(S[i]) + Pkgs(R[i]) = Distance(S[i + 1])
  /\ Len(R) > 0 => Distance(S[Len(R)]) + Pkgs(R[Len(R)]) = Distance(n)

\* A packet stands for what is left of the request it names.
Good(e, R, S) ==
  /\ e.req \in 1 .. Len(R) /\ e.op = R[e.req]
  /\ e.off \in 0 .. Pkgs(e.op) - 1 /\ e.len = Pkgs(e.op) - e.off
  /\ e.psn \in Psn /\ Distance(e.psn) = Distance(S[e.req]) + e.off

\* The responder expects the first packet of a request.
AtRequest(R, S, n, ep) == ep = n \/ \E r \in 1 .. Len(R) : ep = S[r]

Done(k, W) == \E i \in 1 .. Len(W) : W[i].data = k

\* What was executed and what rx_ibh_fsm has accepted are the writes before the
\* expected PSN, in order; before a read come the writes issued before it.
Executed(R, S, ep, W, B) ==
  /\ \A i, j \in 1 .. Len(W) : i < j => W[i].data < W[j].data
  /\ \A i \in 1 .. Len(W) : W[i].data \in 1 .. Len(R) /\ R[W[i].data] # "READ"
                            /\ Distance(S[W[i].data]) < Distance(ep)
  /\ \A j \in 1 .. Len(B) : Good(B[j], R, S) /\ Distance(S[B[j].req]) < Distance(ep)
  /\ \A i \in 1 .. Len(W), j \in 1 .. Len(B) : B[j].op # "READ" => W[i].data < B[j].req
  /\ \A i, j \in 1 .. Len(B) :
       i < j /\ B[i].op # "READ" /\ B[j].op # "READ" => B[i].req < B[j].req
  /\ \A k \in 1 .. Len(R) : R[k] # "READ" /\ Distance(S[k]) < Distance(ep) =>
       Done(k, W) \/ \E j \in 1 .. Len(B) : B[j].req = k
  /\ \A j \in 1 .. Len(B) : B[j].op = "READ" =>
       \A k \in 1 .. B[j].req - 1 : R[k] # "READ" =>
         Done(k, W) \/ \E i \in 1 .. j - 1 : B[i].req = k

\* An answer of the responder, of which AnswersHonest follows.
Honest(a, R, S, ep, W) ==
  /\ a.op = "ACK" => a.psn \in Psn /\ Distance(a.psn) < Distance(ep)
  /\ a.op = "NAK" => Distance(a.psn) <= Distance(ep) /\ \E k \in 1 .. Len(R) : a.psn = S[k]
  /\ a.op \notin {"ACK", "NAK"} =>
       /\ a.req \in 1 .. Len(R) /\ a.psn = Plus(S[a.req], a.off)
       /\ \A k \in 1 .. a.req - 1 : R[k] # "READ" => Done(k, W)
-----------------------------------------------------------------------------
(* Sequences. *)

\* A packet at the end of a queue, and the queue without its head.
LEMMA Appended ==
  ASSUME NEW T, NEW s \in Seq(T), NEW e \in T
  PROVE  /\ Append(s, e) \in Seq(T) /\ Len(Append(s, e)) = Len(s) + 1
         /\ \A i \in 1 .. Len(s) : Append(s, e)[i] = s[i]
         /\ Append(s, e)[Len(s) + 1] = e
         /\ Range(Append(s, e)) = Range(s) \cup {e}
<1>1. Append(s, e) \in Seq(T) /\ Len(Append(s, e)) = Len(s) + 1 /\ Len(s) \in Nat
  OBVIOUS
<1>2. \A i \in 1 .. Len(s) : Append(s, e)[i] = s[i]
  OBVIOUS
<1>3. Append(s, e)[Len(s) + 1] = e
  OBVIOUS
<1>4. DOMAIN s = 1 .. Len(s) /\ DOMAIN Append(s, e) = 1 .. Len(s) + 1
  BY <1>1
<1>5. Range(Append(s, e)) = Range(s) \cup {e}
  BY <1>1, <1>2, <1>3, <1>4 DEF Range
<1> QED
  BY <1>1, <1>2, <1>3, <1>5

LEMMA Tailed ==
  ASSUME NEW T, NEW s \in Seq(T), s # <<>>
  PROVE  /\ Tail(s) \in Seq(T) /\ Len(Tail(s)) = Len(s) - 1 /\ Len(s) >= 1
         /\ \A i \in 1 .. Len(s) - 1 : Tail(s)[i] = s[i + 1]
         /\ Head(s) = s[1] /\ Head(s) \in T /\ Head(s) \in Range(s)
         /\ Range(Tail(s)) \subseteq Range(s)
<1>1. Tail(s) \in Seq(T) /\ Len(Tail(s)) = Len(s) - 1 /\ Len(s) \in Nat /\ Len(s) >= 1
  OBVIOUS
<1>2. \A i \in 1 .. Len(s) - 1 : Tail(s)[i] = s[i + 1]
  OBVIOUS
<1>3. Head(s) = s[1] /\ Head(s) \in T
  OBVIOUS
<1>4. DOMAIN s = 1 .. Len(s) /\ DOMAIN Tail(s) = 1 .. Len(s) - 1
  BY <1>1
<1>5. Head(s) \in Range(s) /\ Range(Tail(s)) \subseteq Range(s)
  BY <1>1, <1>2, <1>3, <1>4 DEF Range
<1> QED
  BY <1>1, <1>2, <1>3, <1>5

LEMMA Joined ==
  ASSUME NEW T, NEW s \in Seq(T), NEW t \in Seq(T)
  PROVE  /\ s \o t \in Seq(T)
         /\ Range(s \o t) \subseteq Range(s) \cup Range(t)
<1>1. s \o t \in Seq(T) /\ Len(s \o t) = Len(s) + Len(t) /\ Len(s) \in Nat /\ Len(t) \in Nat
  OBVIOUS
<1>2. \A i \in 1 .. Len(s) + Len(t) : (s \o t)[i] = IF i <= Len(s) THEN s[i] ELSE t[i - Len(s)]
  OBVIOUS
<1>3. DOMAIN s = 1 .. Len(s) /\ DOMAIN t = 1 .. Len(t) /\ DOMAIN (s \o t) = 1 .. Len(s) + Len(t)
  BY <1>1
<1> QED
  BY <1>1, <1>2, <1>3 DEF Range

LEMMA Part ==
  ASSUME NEW T, NEW s \in Seq(T), NEW m \in 1 .. Len(s) + 1, NEW n \in 0 .. Len(s)
  PROVE  SubSeq(s, m, n) \in Seq(T) /\ Range(SubSeq(s, m, n)) \subseteq Range(s)
<1> DEFINE u == SubSeq(s, m, n)
           l == IF m <= n THEN n - m + 1 ELSE 0
<1>1. u \in Seq(T) /\ Len(u) = l /\ l \in Nat /\ Len(s) \in Nat
  OBVIOUS
<1>2. \A i \in 1 .. l : u[i] = s[m + i - 1] /\ m + i - 1 \in 1 .. Len(s)
  OBVIOUS
<1>3. DOMAIN s = 1 .. Len(s) /\ DOMAIN u = 1 .. l
  BY <1>1
<1> HIDE DEF u, l
<1>4. Range(u) \subseteq Range(s)
  BY <1>1, <1>2, <1>3 DEF Range
<1> QED
  BY <1>1, <1>4 DEF u

\* A fault of the network makes up no packets.
LEMMA FaultyPart ==
  ASSUME NEW T, NEW q \in Seq(T), NEW r \in Faulty(q)
  PROVE  r \in Seq(T) /\ Range(r) \subseteq Range(q)
<1>0. Len(q) \in Nat /\ DOMAIN q = 1 .. Len(q) /\ \A i \in 1 .. Len(q) : q[i] \in T /\ q[i] \in Range(q)
  BY DEF Range
<1>1. CASE \E i \in 1 .. Len(q) : r = RemoveAt(q, i)
  <2>1. PICK i \in 1 .. Len(q) : r = RemoveAt(q, i)
    BY <1>1
  <2> DEFINE a == SubSeq(q, 1, i - 1)
             b == SubSeq(q, i + 1, Len(q))
  <2>2. i - 1 \in 0 .. Len(q) /\ i + 1 \in 1 .. Len(q) + 1 /\ 1 \in 1 .. Len(q) + 1 /\ Len(q) \in 0 .. Len(q)
    BY <1>0
  <2>3. a \in Seq(T) /\ Range(a) \subseteq Range(q)
    BY <2>2, Part
  <2>4. b \in Seq(T) /\ Range(b) \subseteq Range(q)
    BY <2>2, Part
  <2>5. r = a \o b
    BY <2>1 DEF RemoveAt
  <2> HIDE DEF a, b
  <2> QED
    BY <2>3, <2>4, <2>5, Joined
<1>2. CASE \E i \in 1 .. Len(q) : r = Append(q, q[i])
  BY <1>0, <1>2, Appended
<1>3. CASE \E i \in 1 .. Len(q) - 1 : r = [q EXCEPT ![i] = q[i + 1], ![i + 1] = q[i]]
  <2>1. PICK i \in 1 .. Len(q) - 1 : r = [q EXCEPT ![i] = q[i + 1], ![i + 1] = q[i]]
    BY <1>3
  <2>2. i \in 1 .. Len(q) /\ i + 1 \in 1 .. Len(q)
    BY <1>0
  <2>3. DOMAIN r = 1 .. Len(q) /\ \A j \in 1 .. Len(q) : r[j] = q[j] \/ r[j] = q[i] \/ r[j] = q[i + 1]
    BY <1>0, <2>1
  <2>4. \A j \in 1 .. Len(q) : r[j] \in T /\ r[j] \in Range(q)
    BY <1>0, <2>2, <2>3
  <2>5. r = [j \in 1 .. Len(q) |-> r[j]]
    BY <1>0, <2>1
  <2>6. r \in Seq(T)
    BY <1>0, <2>4, <2>5
  <2> QED
    BY <2>3, <2>4, <2>6 DEF Range
<1>4. \A i \in 1 .. (IF Len(q) < NetCap THEN Len(q) ELSE 0) : i \in 1 .. Len(q)
  BY <1>0
<1> QED
  BY <1>1, <1>2, <1>3, <1>4 DEF Faulty

-----------------------------------------------------------------------------
(* Packet sequence numbers. *)

LEMMA Modulus == PsnMod \in Nat /\ PsnMod > 0 /\ PsnMod > MaxReq * ReadPkgs + 1
                 /\ MaxReq \in Nat /\ ReadPkgs \in Nat /\ ReadPkgs >= 1
<1>1. MaxReq * ReadPkgs \in Nat
  BY RoceAssumption
<1> QED
  BY <1>1, RoceAssumption

\* The remainder of a number that is at most once round.
LEMMA OnceRound ==
  ASSUME NEW m \in Nat, m > 0, NEW a \in Int, -m <= a, a < 2 * m
  PROVE  a % m = IF a < 0 THEN a + m ELSE IF a < m THEN a ELSE a - m
<1>1. CASE a < 0
  BY <1>1
<1>2. CASE a >= 0 /\ a < m
  BY <1>2
<1>3. CASE a >= m
  BY <1>3
<1> QED
  BY <1>1, <1>2, <1>3

LEMMA PlusPsn ==
  ASSUME NEW p \in Int, NEW n \in Int
  PROVE  Plus(p, n) \in Psn
BY Modulus DEF Plus, Psn

LEMMA StartInPsn == StartPsn \in Psn /\ StartPsn \in Nat
BY RoceAssumption, Modulus DEF Psn

LEMMA DistanceIs ==
  ASSUME NEW p \in Psn
  PROVE  /\ Distance(p) = IF p < StartPsn THEN p - StartPsn + PsnMod ELSE p - StartPsn
         /\ Distance(p) \in Nat /\ Distance(p) < PsnMod
<1>1. p \in Int /\ StartPsn \in Int /\ p - StartPsn \in Int /\ -PsnMod <= p - StartPsn /\ p - StartPsn < 2 * PsnMod
  BY Modulus, StartInPsn DEF Psn
<1>2. p - StartPsn < PsnMod
  BY Modulus, StartInPsn DEF Psn
<1>3. Distance(p) = IF p - StartPsn < 0 THEN p - StartPsn + PsnMod ELSE p - StartPsn
  BY <1>1, <1>2, Modulus, OnceRound DEF Distance
<1> QED
  BY <1>1, <1>2, <1>3, Modulus, StartInPsn DEF Psn

\* Two PSNs at the same distance are the same.
LEMMA SameDistance ==
  ASSUME NEW p \in Psn, NEW q \in Psn, Distance(p) = Distance(q)
  PROVE  p = q
BY DistanceIs, Modulus, StartInPsn DEF Psn

\* A PSN some packets on, when they do not come round.
LEMMA Onward ==
  ASSUME NEW p \in Psn, NEW n \in Nat, Distance(p) + n < PsnMod
  PROVE  Plus(p, n) \in Psn /\ Distance(Plus(p, n)) = Distance(p) + n
<1>1. p \in Nat /\ p < PsnMod /\ n < PsnMod
  BY DistanceIs, Modulus DEF Psn
<1>2. Plus(p, n) = IF p + n < PsnMod THEN p + n ELSE p + n - PsnMod
  <2> DEFINE a == p + n
  <2>1. a \in Int /\ -PsnMod <= a /\ a < 2 * PsnMod /\ ~(a < 0)
    BY <1>1, Modulus
  <2>2. Plus(p, n) = a % PsnMod
    BY DEF Plus
  <2> HIDE DEF a
  <2>3. a % PsnMod = IF a < 0 THEN a + PsnMod ELSE IF a < PsnMod THEN a ELSE a - PsnMod
    BY <2>1, OnceRound, Modulus
  <2>4. Plus(p, n) = IF a < PsnMod THEN a ELSE a - PsnMod
    BY <2>1, <2>2, <2>3
  <2> QED
    BY <1>1, <2>1, <2>4, Modulus DEF a
<1>3. Plus(p, n) \in Psn
  BY <1>1, PlusPsn
<1>4. Distance(Plus(p, n)) = IF Plus(p, n) < StartPsn THEN Plus(p, n) - StartPsn + PsnMod
                             ELSE Plus(p, n) - StartPsn
  BY <1>3, DistanceIs
<1>5. Distance(p) = IF p < StartPsn THEN p - StartPsn + PsnMod ELSE p - StartPsn
  BY DistanceIs
<1> QED
  BY <1>1, <1>2, <1>3, <1>4, <1>5, Modulus, StartInPsn DEF Psn

\* The window of rx_ibh_fsm holds the PSNs before the expected one.
LEMMA DuplicateBefore ==
  ASSUME epsn \in Psn, NEW p \in Psn, IsDuplicate(p)
  PROVE  Distance(p) < Distance(epsn)
BY DistanceIs, Modulus, StartInPsn DEF Psn, IsDuplicate

LEMMA OtherwiseAfter ==
  ASSUME epsn \in Psn, NEW p \in Psn, ~IsDuplicate(p), p # epsn
  PROVE  Distance(epsn) < Distance(p)
BY DistanceIs, Modulus, StartInPsn DEF Psn, IsDuplicate

-----------------------------------------------------------------------------
(* Requests and their packets. *)

LEMMA PkgsIs == \A k : Pkgs(k) \in Nat /\ Pkgs(k) >= 1 /\ Pkgs(k) <= ReadPkgs
BY Modulus DEF Pkgs

\* MaxReq requests do not use up the PSNs.
LEMMA Room ==
  ASSUME NEW l \in Nat, l <= MaxReq, NEW d \in Nat, d <= l * ReadPkgs
  PROVE  /\ d < PsnMod /\ d <= MaxReq * ReadPkgs
         /\ l < MaxReq => /\ d + ReadPkgs <= (l + 1) * ReadPkgs
                          /\ d + ReadPkgs < PsnMod
<1>1. \A a, b, c \in Nat : a <= b => a * c <= b * c
  OBVIOUS
<1>2. l * ReadPkgs \in Nat /\ MaxReq * ReadPkgs \in Nat /\ l * ReadPkgs <= MaxReq * ReadPkgs
  BY <1>1, Modulus
<1>3. (l + 1) * ReadPkgs = l * ReadPkgs + ReadPkgs
  BY Modulus
<1>4. l < MaxReq => (l + 1) * ReadPkgs <= MaxReq * ReadPkgs
  BY <1>1, Modulus
<1> QED
  BY <1>2, <1>3, <1>4, Modulus

\* A new request takes the PSNs after those of the others.
LEMMA NextRequest ==
  ASSUME NEW R \in Seq(KindSet), NEW S \in Seq(Psn), NEW n \in Psn,
         InPhase(R, S, n), Len(R) < MaxReq, NEW k \in KindSet
  PROVE  /\ Plus(n, Pkgs(k)) \in Psn
         /\ Distance(Plus(n, Pkgs(k))) = Distance(n) + Pkgs(k)
         /\ InPhase(Append(R, k), Append(S, n), Plus(n, Pkgs(k)))
<1> DEFINE R1 == Append(R, k)
           S1 == Append(S, n)
           n1 == Plus(n, Pkgs(k))
           l  == Len(R)
<1>1. l \in Nat /\ Len(R1) = l + 1 /\ (\A i \in 1 .. l : R1[i] = R[i]) /\ R1[l + 1] = k
  BY Appended
<1>2. Len(S) = l /\ Len(S1) = l + 1 /\ (\A i \in 1 .. l : S1[i] = S[i]) /\ S1[l + 1] = n
  BY Appended DEF InPhase
<1>3. Distance(n) \in Nat /\ Distance(n) <= l * ReadPkgs
  BY DistanceIs DEF InPhase
<1>4. Distance(n) + ReadPkgs <= (l + 1) * ReadPkgs /\ Distance(n) + ReadPkgs < PsnMod
  BY <1>1, <1>3, Room, Modulus
<1>5. Distance(n) + Pkgs(k) < PsnMod /\ Pkgs(k) \in Nat
  BY <1>3, <1>4, PkgsIs, Modulus
<1>6. n1 \in Psn /\ Distance(n1) = Distance(n) + Pkgs(k)
  BY <1>5, Onward
<1>7. Distance(n1) <= (l + 1) * ReadPkgs
  <2>1. (l + 1) * ReadPkgs \in Nat
    BY <1>1, Modulus
  <2> QED
    BY <2>1, <1>3, <1>4, <1>6, PkgsIs, Modulus
<1>8. \A i \in 1 .. l : S[i] \in Psn /\ Distance(S[i]) \in Nat
  BY <1>2, DistanceIs
<1> HIDE DEF R1, S1, n1, l
<1>9. \A i \in 1 .. l : /\ Distance(S[i]) + Pkgs(R[i]) <= Distance(n)
                        /\ \A j \in 1 .. l : i < j => Distance(S[i]) + Pkgs(R[i]) <= Distance(S[j])
  BY DEF InPhase, l
<1>10. /\ \A i \in 1 .. l - 1 : Distance(S[i]) + Pkgs(R[i]) = Distance(S[i + 1])
       /\ l > 0 => Distance(S[l]) + Pkgs(R[l]) = Distance(n)
  BY DEF InPhase, l
<1>11. \A i \in 1 .. l + 1 : i \in 1 .. l \/ i = l + 1
  BY <1>1
<1>12. \A i \in 1 .. l + 1 : Distance(S1[i]) + Pkgs(R1[i]) <= Distance(n1)
  <2> TAKE i \in 1 .. l + 1
  <2>1. CASE i \in 1 .. l
    <3>1. Distance(S1[i]) + Pkgs(R1[i]) <= Distance(n)
      BY <2>1, <1>1, <1>2, <1>9
    <3>2. Distance(S1[i]) \in Nat /\ Pkgs(R1[i]) \in Nat /\ Pkgs(k) \in Nat
      BY <2>1, <1>2, <1>8, PkgsIs
    <3> QED
      BY <3>1, <3>2, <1>3, <1>6
  <2>2. CASE i = l + 1
    BY <2>2, <1>1, <1>2, <1>3, <1>6, PkgsIs
  <2> QED
    BY <2>1, <2>2, <1>11
<1>13. \A i, j \in 1 .. l + 1 : i < j => Distance(S1[i]) + Pkgs(R1[i]) <= Distance(S1[j])
  BY <1>1, <1>2, <1>9, <1>11
<1>14. \A i \in 1 .. l : Distance(S1[i]) + Pkgs(R1[i]) = Distance(S1[i + 1])
  <2> TAKE i \in 1 .. l
  <2>1. CASE i = l
    BY <2>1, <1>1, <1>2, <1>10
  <2>2. CASE i # l
    <3>1. i \in 1 .. l - 1 /\ i + 1 \in 1 .. l
      BY <2>2, <1>1
    <3> QED
      BY <3>1, <1>1, <1>2, <1>10
  <2> QED
    BY <2>1, <2>2
<1>15. (l + 1) - 1 = l
  BY <1>1
<1>16. InPhase(R1, S1, n1)
  BY <1>1, <1>2, <1>6, <1>7, <1>12, <1>13, <1>14, <1>15 DEF InPhase
<1> QED
  BY <1>6, <1>16 DEF R1, S1, n1

\* The distances the requests start at.
LEMMA Starts ==
  ASSUME NEW R \in Seq(KindSet), NEW S \in Seq(Psn), NEW n \in Psn, InPhase(R, S, n)
  PROVE  /\ Len(R) \in Nat /\ Len(S) = Len(R) /\ Distance(n) \in Nat /\ Distance(n) < PsnMod
         /\ \A i \in 1 .. Len(R) :
              /\ S[i] \in Psn /\ Distance(S[i]) \in Nat
              /\ Distance(S[i]) + Pkgs(R[i]) <= Distance(n)
              /\ Distance(S[i]) < Distance(n)
         /\ \A i, j \in 1 .. Len(R) : i < j => Distance(S[i]) < Distance(S[j])
<1>1. Len(R) \in Nat /\ Len(S) = Len(R) /\ Distance(n) \in Nat /\ Distance(n) < PsnMod
  BY DistanceIs DEF InPhase
<1>2. \A i \in 1 .. Len(R) : S[i] \in Psn /\ Distance(S[i]) \in Nat
  BY <1>1, DistanceIs
<1>3. \A i \in 1 .. Len(R) : Distance(S[i]) + Pkgs(R[i]) <= Distance(n)
  BY DEF InPhase
<1>4. \A i \in 1 .. Len(R) : Distance(S[i]) < Distance(n)
  BY <1>1, <1>2, <1>3, PkgsIs
<1>5. \A i, j \in 1 .. Len(R) : i < j => Distance(S[i]) + Pkgs(R[i]) <= Distance(S[j])
  BY DEF InPhase
<1>6. \A i, j \in 1 .. Len(R) : i < j => Distance(S[i]) < Distance(S[j])
  BY <1>2, <1>5, PkgsIs
<1> QED
  BY <1>1, <1>2, <1>3, <1>4, <1>6

\* What a new request changes of the sequences it is appended to.
LEMMA Extended ==
  ASSUME NEW R \in Seq(KindSet), NEW S \in Seq(Psn), NEW n \in Psn, InPhase(R, S, n),
         NEW k \in KindSet
  PROVE  /\ Len(R) \in Nat /\ Len(S) = Len(R)
         /\ Len(Append(R, k)) = Len(R) + 1 /\ Len(Append(S, n)) = Len(R) + 1
         /\ \A i \in 1 .. Len(R) : i \in 1 .. Len(R) + 1 /\ Append(R, k)[i] = R[i] /\ Append(S, n)[i] = S[i]
         /\ Append(R, k)[Len(R) + 1] = k /\ Append(S, n)[Len(R) + 1] = n
<1>1. Len(R) \in Nat /\ Len(S) = Len(R)
  BY DEF InPhase
<1>2. /\ Len(Append(R, k)) = Len(R) + 1
      /\ \A i \in 1 .. Len(R) : Append(R, k)[i] = R[i]
      /\ Append(R, k)[Len(R) + 1] = k
  BY Appended
<1>3. /\ Len(Append(S, n)) = Len(S) + 1
      /\ \A i \in 1 .. Len(S) : Append(S, n)[i] = S[i]
      /\ Append(S, n)[Len(S) + 1] = n
  BY Appended
<1> QED
  BY <1>1, <1>2, <1>3

LEMMA GoodKept ==
  ASSUME NEW R \in Seq(KindSet), NEW S \in Seq(Psn), NEW n \in Psn, InPhase(R, S, n),
         NEW k \in KindSet, NEW e, Good(e, R, S)
  PROVE  Good(e, Append(R, k), Append(S, n))
BY Extended DEF Good

LEMMA GoodNew ==
  ASSUME NEW R \in Seq(KindSet), NEW S \in Seq(Psn), NEW n \in Psn, InPhase(R, S, n),
         NEW k \in KindSet,
         NEW e, e = [op |-> k, req |-> Len(R) + 1, off |-> 0, len |-> Pkgs(k), psn |-> n]
  PROVE  Good(e, Append(R, k), Append(S, n))
<1>1. e.op = k /\ e.req = Len(R) + 1 /\ e.off = 0 /\ e.len = Pkgs(k) /\ e.psn = n
  OBVIOUS
<1>2. Pkgs(k) \in Nat /\ Pkgs(k) >= 1 /\ Distance(n) \in Nat
  BY PkgsIs, DistanceIs
<1>3. Len(R) + 1 \in 1 .. Len(R) + 1
  BY Extended
<1> QED
  BY <1>1, <1>2, <1>3, Extended DEF Good

LEMMA AtKept ==
  ASSUME NEW R \in Seq(KindSet), NEW S \in Seq(Psn), NEW n \in Psn, InPhase(R, S, n),
         NEW k \in KindSet, NEW m, NEW ep, AtRequest(R, S, n, ep)
  PROVE  AtRequest(Append(R, k), Append(S, n), m, ep)
<1>1. Len(R) + 1 \in 1 .. Len(R) + 1
  BY Extended
<1> QED
  BY <1>1, Extended DEF AtRequest

\* A read cut by a packet stands for the rest of it.
LEMMA GoodCut ==
  ASSUME NEW R \in Seq(KindSet), NEW S \in Seq(Psn), NEW n \in Psn, InPhase(R, S, n),
         NEW e \in Event, Good(e, R, S), e.op = "READ", e.len > 1,
         NEW f, f = Cut(e)
  PROVE  Good(f, R, S)
<1>1. f.op = e.op /\ f.req = e.req /\ f.off = e.off + 1 /\ f.len = e.len - 1 /\ f.psn = Plus(e.psn, 1)
  BY DEF Event, Cut
<1>2. Pkgs(e.op) \in Nat /\ e.off \in Nat /\ e.off \in 0 .. Pkgs(e.op) - 1 /\ e.len = Pkgs(e.op) - e.off
  BY PkgsIs DEF Good
<1>3. e.off + 1 \in 0 .. Pkgs(e.op) - 1 /\ e.len - 1 = Pkgs(e.op) - (e.off + 1)
  BY <1>2
<1>4. /\ e.psn \in Psn /\ Distance(e.psn) = Distance(S[e.req]) + e.off
      /\ e.req \in 1 .. Len(R) /\ e.op = R[e.req]
  BY DEF Good
<1>5. Distance(S[e.req]) \in Nat /\ Distance(S[e.req]) + Pkgs(e.op) <= Distance(n) /\ Distance(n) \in Nat
      /\ Distance(n) < PsnMod
  BY <1>4, Starts
<1>6. Distance(e.psn) + 1 < PsnMod
  <2>1. \A a, o, g, d, m \in Nat : o + 1 <= g - 1 /\ a + g <= d /\ d < m => a + o + 1 < m
    OBVIOUS
  <2>2. e.off + 1 <= Pkgs(e.op) - 1 /\ PsnMod \in Nat
    BY <1>2, <1>3, Modulus
  <2>3. Distance(S[e.req]) + e.off + 1 < PsnMod
    BY <2>1, <2>2, <1>2, <1>5
  <2> QED
    BY <2>3, <1>4
<1>7. Plus(e.psn, 1) \in Psn /\ Distance(Plus(e.psn, 1)) = Distance(e.psn) + 1
  BY <1>4, <1>6, Onward
<1>8. Distance(Plus(e.psn, 1)) = Distance(S[e.req]) + (e.off + 1)
  BY <1>2, <1>4, <1>5, <1>7
<1> QED
  BY <1>1, <1>3, <1>4, <1>7, <1>8 DEF Good

\* A packet with the expected PSN is the first one of its request, and the
\* responder goes on to the request after it.
LEMMA ExpectedIs ==
  ASSUME NEW R \in Seq(KindSet), NEW S \in Seq(Psn), NEW n \in Psn, InPhase(R, S, n),
         NEW ep \in Psn, AtRequest(R, S, n, ep),
         NEW e, Good(e, R, S), e.psn = ep
  PROVE  /\ e.off = 0 /\ ep = S[e.req]
         /\ Plus(ep, NumPkg(e)) \in Psn
         /\ Distance(Plus(ep, NumPkg(e))) = Distance(ep) + Pkgs(e.op)
         /\ AtRequest(R, S, n, Plus(ep, NumPkg(e)))
<1> DEFINE q == e.req
<1>1. /\ q \in 1 .. Len(R) /\ e.op = R[q] /\ e.off \in 0 .. Pkgs(R[q]) - 1
      /\ e.len = Pkgs(R[q]) - e.off /\ Distance(ep) = Distance(S[q]) + e.off
      /\ Pkgs(R[q]) \in Nat /\ Pkgs(R[q]) >= 1
  BY PkgsIs DEF Good
<1>2. Distance(S[q]) \in Nat /\ Distance(S[q]) + Pkgs(R[q]) <= Distance(n) /\ Distance(n) \in Nat
      /\ Distance(n) < PsnMod /\ Len(R) \in Nat /\ S[q] \in Psn
  BY <1>1, Starts
<1>3. ep # n
  BY <1>1, <1>2
<1>4. PICK r \in 1 .. Len(R) : ep = S[r]
  BY <1>3 DEF AtRequest
<1>5. Distance(S[r]) \in Nat
  BY Starts
<1>6. ~(r < q)
  <2>1. r < q => Distance(S[r]) < Distance(S[q])
    BY <1>1, Starts
  <2> QED
    BY <2>1, <1>1, <1>2, <1>4, <1>5
<1>7. ~(q < r)
  <2>1. q < r => Distance(S[q]) + Pkgs(R[q]) <= Distance(S[r])
    BY <1>1 DEF InPhase
  <2> QED
    BY <2>1, <1>1, <1>2, <1>4, <1>5
<1>8. r = q
  BY <1>1, <1>2, <1>6, <1>7
<1>9. e.off = 0 /\ ep = S[q]
  BY <1>1, <1>2, <1>4, <1>8
<1>10. NumPkg(e) = Pkgs(R[q])
  BY <1>1, <1>9 DEF NumPkg, Pkgs
<1>11. Plus(ep, NumPkg(e)) \in Psn /\ Distance(Plus(ep, NumPkg(e))) = Distance(ep) + Pkgs(R[q])
  <2>1. Distance(ep) + Pkgs(R[q]) < PsnMod
    BY <1>1, <1>2, <1>9, Modulus
  <2> QED
    BY <2>1, <1>1, <1>10, Onward
<1>12. AtRequest(R, S, n, Plus(ep, NumPkg(e)))
  <2>1. CASE q = Len(R)
    <3>1. Distance(S[q]) + Pkgs(R[q]) = Distance(n)
      BY <2>1, <1>1, <1>2 DEF InPhase
    <3>2. Plus(ep, NumPkg(e)) = n
      BY <3>1, <1>9, <1>11, SameDistance
    <3> QED
      BY <3>2 DEF AtRequest
  <2>2. CASE q # Len(R)
    <3>1. q \in 1 .. Len(R) - 1 /\ q + 1 \in 1 .. Len(R)
      BY <2>2, <1>1, <1>2
    <3>2. Distance(S[q]) + Pkgs(R[q]) = Distance(S[q + 1])
      BY <3>1 DEF InPhase
    <3>3. S[q + 1] \in Psn
      BY <3>1, Starts
    <3>4. Plus(ep, NumPkg(e)) = S[q + 1]
      BY <3>2, <3>3, <1>9, <1>11, SameDistance
    <3> QED
      BY <3>1, <3>4 DEF AtRequest
  <2> QED
    BY <2>1, <2>2
<1> QED
  BY <1>1, <1>9, <1>11, <1>12

-----------------------------------------------------------------------------
(* What the responder executes. *)

WriteRec == [at : Nat, data : Nat]

\* The packets rx_ibh_fsm has accepted are numbers and kinds of requests.
LEMMA Accepts ==
  ASSUME NEW R \in Seq(KindSet), NEW S \in Seq(Psn), NEW ep, NEW W \in Seq(WriteRec),
         NEW B \in Seq(Event), Executed(R, S, ep, W, B)
  PROVE  /\ \A i \in 1 .. Len(W) : W[i].data \in 1 .. Len(R) /\ W[i].data \in Nat
         /\ \A j \in 1 .. Len(B) : B[j].req \in 1 .. Len(R) /\ B[j].req \in Nat /\ B[j].op = R[B[j].req]
         /\ Len(W) \in Nat /\ Len(B) \in Nat /\ Len(R) \in Nat
<1>1. Len(W) \in Nat /\ Len(B) \in Nat /\ Len(R) \in Nat
  OBVIOUS
<1> QED
  BY <1>1 DEF Executed, Good

LEMMA ExecutedNew ==
  ASSUME NEW R \in Seq(KindSet), NEW S \in Seq(Psn), NEW n \in Psn, InPhase(R, S, n),
         NEW k \in KindSet, NEW ep \in Psn, AtRequest(R, S, n, ep),
         NEW W \in Seq(WriteRec), NEW B \in Seq(Event), Executed(R, S, ep, W, B)
  PROVE  Executed(Append(R, k), Append(S, n), ep, W, B)
<1> DEFINE R1 == Append(R, k)
           S1 == Append(S, n)
           l  == Len(R)
<1>1. /\ l \in Nat /\ Len(S) = l /\ Len(R1) = l + 1 /\ Len(S1) = l + 1
      /\ \A i \in 1 .. l : i \in 1 .. l + 1 /\ R1[i] = R[i] /\ S1[i] = S[i]
      /\ R1[l + 1] = k /\ S1[l + 1] = n
  BY Extended
<1>2. Distance(ep) <= Distance(n) /\ Distance(n) \in Nat /\ Distance(ep) \in Nat
  BY Starts, DistanceIs DEF AtRequest
<1>3. \A j \in 1 .. Len(B) : Good(B[j], R1, S1)
  BY GoodKept DEF Executed
<1>4. /\ \A i \in 1 .. Len(W) : W[i].data \in 1 .. l
      /\ \A j \in 1 .. Len(B) : B[j].req \in 1 .. l /\ B[j].req \in Nat
  BY Accepts
<1> HIDE DEF R1, S1
<1>5. \A i \in 1 .. Len(W) : W[i].data \in 1 .. l + 1 /\ R1[W[i].data] # "READ"
                             /\ Distance(S1[W[i].data]) < Distance(ep)
  BY <1>1, <1>4 DEF Executed
<1>6. \A j \in 1 .. Len(B) : Distance(S1[B[j].req]) < Distance(ep)
  BY <1>1, <1>4 DEF Executed
<1>7. \A i \in 1 .. l + 1 : R1[i] # "READ" /\ Distance(S1[i]) < Distance(ep) =>
        Done(i, W) \/ \E j \in 1 .. Len(B) : B[j].req = i
  <2> TAKE i \in 1 .. l + 1
  <2>1. CASE i = l + 1
    BY <2>1, <1>1, <1>2
  <2>2. CASE i # l + 1
    <3>1. i \in 1 .. l
      BY <2>2, <1>1
    <3> QED
      BY <3>1, <1>1 DEF Executed
  <2> QED
    BY <2>1, <2>2
<1>8. \A j \in 1 .. Len(B) : B[j].op = "READ" =>
        \A i \in 1 .. B[j].req - 1 : R1[i] # "READ" =>
          Done(i, W) \/ \E m \in 1 .. j - 1 : B[m].req = i
  <2> TAKE j \in 1 .. Len(B)
  <2> HAVE B[j].op = "READ"
  <2> TAKE i \in 1 .. B[j].req - 1
  <2>1. i \in 1 .. l
    BY <1>1, <1>4
  <2> QED
    BY <2>1, <1>1 DEF Executed
<1>9. Executed(R1, S1, ep, W, B)
  BY <1>1, <1>3, <1>5, <1>6, <1>7, <1>8 DEF Executed
<1> QED
  BY <1>9 DEF R1, S1

\* A packet joins the accepted ones: a request that is new to the responder, or
\* a read again.
LEMMA ExecutedJoin ==
  ASSUME NEW R \in Seq(KindSet), NEW S \in Seq(Psn), NEW n \in Psn, InPhase(R, S, n),
         NEW ep \in Psn, NEW ep1 \in Psn,
         NEW W \in Seq(WriteRec), NEW B \in Seq(Event), Executed(R, S, ep, W, B),
         NEW e \in Event, Good(e, R, S),
         Distance(ep) <= Distance(ep1),
         Distance(S[e.req]) < Distance(ep1), Distance(S[e.req]) <= Distance(ep),
         e.op # "READ" => Distance(S[e.req]) = Distance(ep),
         \A k \in 1 .. Len(R) : R[k] # "READ" /\ Distance(S[k]) < Distance(ep1) =>
           Distance(S[k]) < Distance(ep) \/ k = e.req
  PROVE  Executed(R, S, ep1, W, Append(B, e))
<1> DEFINE C == Append(B, e)
           l == Len(B)
<1>1. l \in Nat /\ Len(C) = l + 1 /\ (\A i \in 1 .. l : C[i] = B[i]) /\ C[l + 1] = e
  BY Appended
<1>2. \A i \in 1 .. l + 1 : i \in 1 .. l \/ i = l + 1
  BY <1>1
<1>3. Distance(ep) \in Nat /\ Distance(ep1) \in Nat
  BY DistanceIs
<1>4. \A i \in 1 .. Len(R) : Distance(S[i]) \in Nat
  BY Starts
<1>5. /\ \A i \in 1 .. Len(W) : W[i].data \in 1 .. Len(R)
      /\ \A j \in 1 .. l : B[j].req \in 1 .. Len(R)
      /\ Len(R) \in Nat
  BY Accepts
<1>6. e.req \in 1 .. Len(R) /\ e.op = R[e.req]
  BY DEF Good
<1>7. \A k \in 1 .. Len(R) : Distance(S[k]) < Distance(S[e.req]) => k < e.req
  <2> TAKE k \in 1 .. Len(R)
  <2>1. e.req < k => Distance(S[e.req]) < Distance(S[k])
    BY <1>6, Starts
  <2> QED
    BY <2>1, <1>4, <1>5, <1>6
<1>8. \A k \in 1 .. Len(R) : k < e.req => Distance(S[k]) < Distance(ep)
  BY <1>3, <1>4, <1>6, Starts
<1> HIDE DEF C
<1>9. \A i \in 1 .. Len(W) : Distance(S[W[i].data]) < Distance(ep1)
  BY <1>3, <1>4, <1>5 DEF Executed
<1>10. \A j \in 1 .. l + 1 : Good(C[j], R, S) /\ Distance(S[C[j].req]) < Distance(ep1)
  <2>1. \A j \in 1 .. l : Good(B[j], R, S) /\ Distance(S[B[j].req]) < Distance(ep)
    BY DEF Executed
  <2>2. \A j \in 1 .. l : Distance(S[B[j].req]) < Distance(ep1)
    BY <2>1, <1>3, <1>4, <1>5
  <2> QED
    BY <2>1, <2>2, <1>1, <1>2
<1>11. \A i \in 1 .. Len(W), j \in 1 .. l + 1 : C[j].op # "READ" => W[i].data < C[j].req
  <2>1. \A i \in 1 .. Len(W), j \in 1 .. l : B[j].op # "READ" => W[i].data < B[j].req
    BY DEF Executed
  <2>2. \A i \in 1 .. Len(W) : Distance(S[W[i].data]) < Distance(ep)
    BY DEF Executed
  <2>3. \A i \in 1 .. Len(W) : e.op # "READ" => W[i].data < e.req
    BY <2>2, <1>5, <1>7
  <2> QED
    BY <2>1, <2>3, <1>1, <1>2
<1>12. \A i, j \in 1 .. l + 1 : i < j /\ C[i].op # "READ" /\ C[j].op # "READ" => C[i].req < C[j].req
  <2>1. \A i, j \in 1 .. l : i < j /\ B[i].op # "READ" /\ B[j].op # "READ" => B[i].req < B[j].req
    BY DEF Executed
  <2>2. \A i \in 1 .. l : e.op # "READ" => B[i].req < e.req
    BY <1>5, <1>7 DEF Executed
  <2>3. \A i, j \in 1 .. l + 1 : i < j => i \in 1 .. l
    BY <1>1
  <2> QED
    BY <2>1, <2>2, <2>3, <1>1, <1>2
<1>13. \A k \in 1 .. Len(R) : R[k] # "READ" /\ Distance(S[k]) < Distance(ep1) =>
         Done(k, W) \/ \E j \in 1 .. l + 1 : C[j].req = k
  <2> SUFFICES ASSUME NEW k \in 1 .. Len(R), R[k] # "READ", Distance(S[k]) < Distance(ep1)
               PROVE  Done(k, W) \/ \E j \in 1 .. l + 1 : C[j].req = k
    OBVIOUS
  <2>1. CASE k = e.req
    <3>1. l + 1 \in 1 .. l + 1
      BY <1>1
    <3> QED
      BY <2>1, <3>1, <1>1
  <2>2. CASE Distance(S[k]) < Distance(ep)
    <3>1. Done(k, W) \/ \E j \in 1 .. l : B[j].req = k
      BY <2>2 DEF Executed
    <3>2. \A j \in 1 .. l : j \in 1 .. l + 1
      BY <1>1
    <3> QED
      BY <3>1, <3>2, <1>1
  <2> QED
    BY <2>1, <2>2
<1>14. \A j \in 1 .. l + 1 : C[j].op = "READ" =>
         \A k \in 1 .. C[j].req - 1 : R[k] # "READ" =>
           Done(k, W) \/ \E i \in 1 .. j - 1 : C[i].req = k
  <2> TAKE j \in 1 .. l + 1
  <2> HAVE C[j].op = "READ"
  <2> TAKE k \in 1 .. C[j].req - 1
  <2> HAVE R[k] # "READ"
  <2>1. CASE j \in 1 .. l
    <3>1. Done(k, W) \/ \E i \in 1 .. j - 1 : B[i].req = k
      BY <2>1, <1>1 DEF Executed
    <3>2. \A i \in 1 .. j - 1 : i \in 1 .. l
      BY <2>1, <1>1
    <3> QED
      BY <3>1, <3>2, <1>1
  <2>2. CASE j = l + 1
    <3>1. k \in 1 .. Len(R) /\ k < e.req
      BY <2>2, <1>1, <1>5, <1>6
    <3>2. Done(k, W) \/ \E i \in 1 .. l : B[i].req = k
      BY <3>1, <1>8 DEF Executed
    <3>3. j - 1 = l
      BY <2>2, <1>1
    <3> QED
      BY <3>2, <3>3, <1>1
  <2> QED
    BY <2>1, <2>2, <1>2
<1>15. Executed(R, S, ep1, W, C)
  BY <1>1, <1>9, <1>10, <1>11, <1>12, <1>13, <1>14 DEF Executed
<1> QED
  BY <1>15 DEF C

\* rx_exh_fsm takes the first of the accepted packets: a write is executed ...
LEMMA ExecutedWrite ==
  ASSUME NEW R \in Seq(KindSet), NEW S \in Seq(Psn), NEW ep,
         NEW W \in Seq(WriteRec), NEW B \in Seq(Event), Executed(R, S, ep, W, B),
         B # <<>>, Head(B).op # "READ",
         NEW w \in WriteRec, w.data = Head(B).req
  PROVE  Executed(R, S, ep, Append(W, w), Tail(B))
<1> DEFINE V == Append(W, w)
           C == Tail(B)
           l == Len(B) - 1
           m == Len(W)
<1>1. m \in Nat /\ Len(V) = m + 1 /\ (\A i \in 1 .. m : V[i] = W[i]) /\ V[m + 1] = w
  BY Appended
<1>2. l \in Nat /\ Len(C) = l /\ (\A j \in 1 .. l : C[j] = B[j + 1]) /\ Head(B) = B[1]
  BY Tailed
<1>3. Len(B) = l + 1 /\ (\A j \in 1 .. l : j + 1 \in 1 .. Len(B)) /\ 1 \in 1 .. Len(B)
  BY <1>2
<1>4. \A i \in 1 .. m + 1 : i \in 1 .. m \/ i = m + 1
  BY <1>1
<1>5. /\ \A i \in 1 .. m : W[i].data \in 1 .. Len(R) /\ W[i].data \in Nat
      /\ \A j \in 1 .. l + 1 : B[j].req \in 1 .. Len(R) /\ B[j].req \in Nat /\ B[j].op = R[B[j].req]
  BY <1>3, Accepts
<1>6. w.data = B[1].req /\ B[1].op # "READ"
  BY <1>2
<1> HIDE DEF V, C, l
<1>7. \A i, j \in 1 .. m + 1 : i < j => V[i].data < V[j].data
  <2>1. \A i \in 1 .. m : W[i].data < w.data
    BY <1>3, <1>6 DEF Executed
  <2>2. \A i, j \in 1 .. m + 1 : i < j => i \in 1 .. m
    BY <1>1
  <2>3. \A i, j \in 1 .. m : i < j => W[i].data < W[j].data
    BY DEF Executed
  <2> QED
    BY <2>1, <2>2, <2>3, <1>1, <1>4
<1>8. \A i \in 1 .. m + 1 : V[i].data \in 1 .. Len(R) /\ R[V[i].data] # "READ"
                            /\ Distance(S[V[i].data]) < Distance(ep)
  <2>1. \A i \in 1 .. m : W[i].data \in 1 .. Len(R) /\ R[W[i].data] # "READ"
                          /\ Distance(S[W[i].data]) < Distance(ep)
    BY DEF Executed
  <2>2. Distance(S[B[1].req]) < Distance(ep)
    BY <1>3 DEF Executed
  <2>3. B[1].req \in 1 .. Len(R) /\ R[B[1].req] # "READ"
    BY <1>3, <1>5, <1>6
  <2> QED
    BY <2>1, <2>2, <2>3, <1>1, <1>4, <1>6
<1>9. \A j \in 1 .. l : Good(C[j], R, S) /\ Distance(S[C[j].req]) < Distance(ep)
  BY <1>2, <1>3 DEF Executed
<1>10. \A i \in 1 .. m + 1, j \in 1 .. l : C[j].op # "READ" => V[i].data < C[j].req
  <2>1. \A i \in 1 .. m, j \in 1 .. l : B[j + 1].op # "READ" => W[i].data < B[j + 1].req
    BY <1>3 DEF Executed
  <2>2. \A j \in 1 .. l : 1 < j + 1
    BY <1>2
  <2>3. \A j \in 1 .. l : B[j + 1].op # "READ" => B[1].req < B[j + 1].req
    BY <2>2, <1>3, <1>6 DEF Executed
  <2> QED
    BY <2>1, <2>3, <1>1, <1>2, <1>4, <1>6
<1>11. \A i, j \in 1 .. l : i < j /\ C[i].op # "READ" /\ C[j].op # "READ" => C[i].req < C[j].req
  <2>1. \A i, j \in 1 .. l : i < j => i + 1 < j + 1
    BY <1>2
  <2>2. \A i, j \in 1 .. Len(B) :
          i < j /\ B[i].op # "READ" /\ B[j].op # "READ" => B[i].req < B[j].req
    BY DEF Executed
  <2>3. \A i \in 1 .. l : i + 1 \in 1 .. Len(B) /\ C[i] = B[i + 1]
    BY <1>2, <1>3
  <2> QED
    BY <2>1, <2>2, <2>3
<1>12. \A k : Done(k, W) => Done(k, V)
  <2>1. \A i \in 1 .. m : i \in 1 .. m + 1
    BY <1>1
  <2> QED
    BY <2>1, <1>1 DEF Done
<1>13. Done(B[1].req, V)
  <2>1. m + 1 \in 1 .. m + 1
    BY <1>1
  <2> QED
    BY <2>1, <1>1, <1>6 DEF Done
<1>14. \A j \in 1 .. l + 1 : j = 1 \/ (j - 1 \in 1 .. l /\ C[j - 1] = B[j])
  <2>1. \A j \in 1 .. l + 1 : j = 1 \/ (j - 1 \in 1 .. l /\ (j - 1) + 1 = j)
    BY <1>2
  <2> QED
    BY <2>1, <1>2
<1>15. \A k \in 1 .. Len(R) : R[k] # "READ" /\ Distance(S[k]) < Distance(ep) =>
         Done(k, V) \/ \E j \in 1 .. l : C[j].req = k
  <2>1. \A k \in 1 .. Len(R) : R[k] # "READ" /\ Distance(S[k]) < Distance(ep) =>
          Done(k, W) \/ \E j \in 1 .. l + 1 : B[j].req = k
    BY <1>3 DEF Executed
  <2> SUFFICES ASSUME NEW k \in 1 .. Len(R), R[k] # "READ", Distance(S[k]) < Distance(ep),
                      NEW j \in 1 .. l + 1, B[j].req = k
               PROVE  Done(k, V) \/ \E i \in 1 .. l : C[i].req = k
    BY <2>1, <1>12
  <2>2. CASE j = 1
    BY <2>2, <1>13
  <2>3. CASE j # 1
    BY <2>3, <1>14
  <2> QED
    BY <2>2, <2>3
<1>16. \A j \in 1 .. l : C[j].op = "READ" =>
         \A k \in 1 .. C[j].req - 1 : R[k] # "READ" =>
           Done(k, V) \/ \E i \in 1 .. j - 1 : C[i].req = k
  <2> TAKE j \in 1 .. l
  <2> HAVE C[j].op = "READ"
  <2> TAKE k \in 1 .. C[j].req - 1
  <2> HAVE R[k] # "READ"
  <2>1. l \in Nat /\ (j + 1) - 1 = j /\ j + 1 \in 1 .. Len(B) /\ C[j] = B[j + 1]
    BY <1>2, <1>3
  <2>2. \A b \in 1 .. Len(B) : B[b].op = "READ" =>
          \A a \in 1 .. B[b].req - 1 : R[a] # "READ" =>
            Done(a, W) \/ \E i \in 1 .. b - 1 : B[i].req = a
    BY DEF Executed
  <2>3. Done(k, W) \/ \E i \in 1 .. j : B[i].req = k
    BY <2>1, <2>2
  <2>4. \A i \in 1 .. j : i = 1 \/ i - 1 \in 1 .. j - 1
    BY <2>1
  <2>5. \A i \in 1 .. j : i \in 1 .. l + 1
    BY <2>1
  <2> SUFFICES ASSUME NEW i \in 1 .. j, B[i].req = k
               PROVE  Done(k, V) \/ \E a \in 1 .. j - 1 : C[a].req = k
    BY <2>3, <1>12
  <2>6. CASE i = 1
    BY <2>6, <1>13
  <2>7. CASE i # 1
    BY <2>4, <2>5, <2>7, <1>14
  <2> QED
    BY <2>6, <2>7
<1>17. Executed(R, S, ep, V, C)
  BY <1>1, <1>2, <1>7, <1>8, <1>9, <1>10, <1>11, <1>15, <1>16 DEF Executed
<1> QED
  BY <1>17 DEF V, C

\* ... and a read leaves the writes alone.
LEMMA ExecutedRead ==
  ASSUME NEW R \in Seq(KindSet), NEW S \in Seq(Psn), NEW ep,
         NEW W \in Seq(WriteRec), NEW B \in Seq(Event), Executed(R, S, ep, W, B),
         B # <<>>, Head(B).op = "READ"
  PROVE  /\ Executed(R, S, ep, W, Tail(B))
         /\ \A k \in 1 .. Head(B).req - 1 : R[k] # "READ" => Done(k, W)
<1> DEFINE C == Tail(B)
           l == Len(B) - 1
<1>2. l \in Nat /\ Len(C) = l /\ (\A j \in 1 .. l : C[j] = B[j + 1]) /\ Head(B) = B[1]
  BY Tailed
<1>3. Len(B) = l + 1 /\ (\A j \in 1 .. l : j + 1 \in 1 .. Len(B)) /\ 1 \in 1 .. Len(B)
  BY <1>2
<1>5. \A j \in 1 .. l + 1 : B[j].req \in 1 .. Len(R) /\ B[j].op = R[B[j].req]
  BY <1>3, Accepts
<1>6. R[B[1].req] = "READ" /\ B[1].op = "READ"
  BY <1>2, <1>3, <1>5
<1> HIDE DEF C, l
<1>9. \A j \in 1 .. l : Good(C[j], R, S) /\ Distance(S[C[j].req]) < Distance(ep)
  BY <1>2, <1>3 DEF Executed
<1>10. \A i \in 1 .. Len(W), j \in 1 .. l : C[j].op # "READ" => W[i].data < C[j].req
  BY <1>2, <1>3 DEF Executed
<1>11. \A i, j \in 1 .. l : i < j /\ C[i].op # "READ" /\ C[j].op # "READ" => C[i].req < C[j].req
  <2>1. \A i, j \in 1 .. l : i < j => i + 1 < j + 1
    BY <1>2
  <2>2. \A i, j \in 1 .. Len(B) :
          i < j /\ B[i].op # "READ" /\ B[j].op # "READ" => B[i].req < B[j].req
    BY DEF Executed
  <2>3. \A i \in 1 .. l : i + 1 \in 1 .. Len(B) /\ C[i] = B[i + 1]
    BY <1>2, <1>3
  <2> QED
    BY <2>1, <2>2, <2>3
<1>14. \A j \in 1 .. l + 1 : j = 1 \/ (j - 1 \in 1 .. l /\ C[j - 1] = B[j])
  <2>1. \A j \in 1 .. l + 1 : j = 1 \/ (j - 1 \in 1 .. l /\ (j - 1) + 1 = j)
    BY <1>2
  <2> QED
    BY <2>1, <1>2
<1>15. \A k \in 1 .. Len(R) : R[k] # "READ" /\ Distance(S[k]) < Distance(ep) =>
         Done(k, W) \/ \E j \in 1 .. l : C[j].req = k
  <2>1. \A k \in 1 .. Len(R) : R[k] # "READ" /\ Distance(S[k]) < Distance(ep) =>
          Done(k, W) \/ \E j \in 1 .. l + 1 : B[j].req = k
    BY <1>3 DEF Executed
  <2> SUFFICES ASSUME NEW k \in 1 .. Len(R), R[k] # "READ", Distance(S[k]) < Distance(ep),
                      NEW j \in 1 .. l + 1, B[j].req = k
               PROVE  Done(k, W) \/ \E i \in 1 .. l : C[i].req = k
    BY <2>1
  <2>2. CASE j = 1
    BY <2>2, <1>6
  <2>3. CASE j # 1
    BY <2>3, <1>14
  <2> QED
    BY <2>2, <2>3
<1>16. \A j \in 1 .. l : C[j].op = "READ" =>
         \A k \in 1 .. C[j].req - 1 : R[k] # "READ" =>
           Done(k, W) \/ \E i \in 1 .. j - 1 : C[i].req = k
  <2> TAKE j \in 1 .. l
  <2> HAVE C[j].op = "READ"
  <2> TAKE k \in 1 .. C[j].req - 1
  <2> HAVE R[k] # "READ"
  <2>1. l \in Nat /\ (j + 1) - 1 = j /\ j + 1 \in 1 .. Len(B) /\ C[j] = B[j + 1]
    BY <1>2, <1>3
  <2>2. \A b \in 1 .. Len(B) : B[b].op = "READ" =>
          \A a \in 1 .. B[b].req - 1 : R[a] # "READ" =>
            Done(a, W) \/ \E i \in 1 .. b - 1 : B[i].req = a
    BY DEF Executed
  <2>3. Done(k, W) \/ \E i \in 1 .. j : B[i].req = k
    BY <2>1, <2>2
  <2>4. \A i \in 1 .. j : i = 1 \/ i - 1 \in 1 .. j - 1
    BY <2>1
  <2>5. \A i \in 1 .. j : i \in 1 .. l + 1
    BY <2>1
  <2> SUFFICES ASSUME NEW i \in 1 .. j, B[i].req = k
               PROVE  Done(k, W) \/ \E a \in 1 .. j - 1 : C[a].req = k
    BY <2>3
  <2>6. CASE i = 1
    BY <2>6, <1>6
  <2>7. CASE i # 1
    BY <2>4, <2>5, <2>7, <1>14
  <2> QED
    BY <2>6, <2>7
<1>17. Executed(R, S, ep, W, C)
  BY <1>2, <1>9, <1>10, <1>11, <1>15, <1>16 DEF Executed
<1>18. \A k \in 1 .. Head(B).req - 1 : R[k] # "READ" => Done(k, W)
  <2>1. ~ \E i \in 1 .. 1 - 1 : TRUE
    OBVIOUS
  <2> QED
    BY <2>1, <1>2, <1>3, <1>6 DEF Executed
<1> QED
  BY <1>17, <1>18 DEF C

-----------------------------------------------------------------------------
(* What the responder answers. *)

LEMMA DoneMore ==
  ASSUME NEW W \in Seq(WriteRec), NEW w \in WriteRec, NEW k, Done(k, W)
  PROVE  Done(k, Append(W, w))
<1>1. Len(W) \in Nat /\ Len(Append(W, w)) = Len(W) + 1 /\ \A i \in 1 .. Len(W) : Append(W, w)[i] = W[i]
  BY Appended
<1>2. \A i \in 1 .. Len(W) : i \in 1 .. Len(W) + 1
  BY <1>1
<1> QED
  BY <1>1, <1>2 DEF Done

\* What was true of an answer stays true: with another request, when the
\* responder goes on, and when another write is executed.
LEMMA HonestNew ==
  ASSUME NEW R \in Seq(KindSet), NEW S \in Seq(Psn), NEW n \in Psn, InPhase(R, S, n),
         NEW k \in KindSet, NEW ep, NEW W, NEW a \in Event, Honest(a, R, S, ep, W)
  PROVE  Honest(a, Append(R, k), Append(S, n), ep, W)
<1>1. CASE a.op = "ACK"
  BY <1>1 DEF Honest
<1>2. CASE a.op = "NAK"
  BY <1>2, Extended DEF Honest
<1>3. CASE a.op \notin {"ACK", "NAK"}
  <2>1. a.req \in 1 .. Len(R) /\ a.psn = Plus(S[a.req], a.off)
        /\ \A i \in 1 .. a.req - 1 : R[i] # "READ" => Done(i, W)
    BY <1>3 DEF Honest
  <2>2. \A i \in 1 .. a.req - 1 : i \in 1 .. Len(R)
    BY <2>1, Extended
  <2> QED
    BY <1>3, <2>1, <2>2, Extended DEF Honest
<1> QED
  BY <1>1, <1>2, <1>3

LEMMA HonestOn ==
  ASSUME NEW R, NEW S, NEW ep \in Psn, NEW ep1 \in Psn, Distance(ep) <= Distance(ep1),
         NEW W, NEW a \in Event, Honest(a, R, S, ep, W)
  PROVE  Honest(a, R, S, ep1, W)
<1>1. Distance(ep) \in Nat /\ Distance(ep1) \in Nat
  BY DistanceIs
<1>2. CASE a.op = "ACK"
  <2>1. a.psn \in Psn /\ Distance(a.psn) \in Nat /\ Distance(a.psn) < Distance(ep)
    BY <1>2, DistanceIs DEF Honest
  <2> QED
    BY <1>1, <1>2, <2>1 DEF Honest
<1>3. CASE a.op = "NAK"
  <2>1. Distance(a.psn) <= Distance(ep) /\ \E k \in 1 .. Len(R) : a.psn = S[k]
    BY <1>3 DEF Honest
  <2>2. Distance(a.psn) \in Int
    <3>1. a.psn \in Int /\ StartPsn \in Int
      BY StartInPsn DEF Event, Psn
    <3> QED
      BY <3>1, Modulus DEF Distance
  <2>3. Distance(a.psn) <= Distance(ep1)
    BY <1>1, <2>1, <2>2
  <2> QED
    BY <1>3, <2>1, <2>3 DEF Honest
<1>4. CASE a.op \notin {"ACK", "NAK"}
  BY <1>4 DEF Honest
<1> QED
  BY <1>2, <1>3, <1>4

LEMMA HonestMore ==
  ASSUME NEW R, NEW S, NEW ep, NEW W \in Seq(WriteRec), NEW w \in WriteRec,
         NEW a, Honest(a, R, S, ep, W)
  PROVE  Honest(a, R, S, ep, Append(W, w))
BY DoneMore DEF Honest

\* A packet with other fields is a packet.
LEMMA EventUpdated ==
  ASSUME NEW p \in Event, NEW x \in OpSet, NEW o \in Nat, NEW l \in Int, NEW q \in Psn
  PROVE  [p EXCEPT !.psn = q, !.off = o, !.len = l, !.op = x] \in Event
<1> DEFINE P == Psn \cup {-1}
           Q == 0 .. MaxReq
<1>1. Event = [op : OpSet, req : Q, off : Nat, len : Int, psn : P]
  BY DEF Event, OpSet
<1>2. q \in P
  OBVIOUS
<1> HIDE DEF P, Q
<1> QED
  BY <1>1, <1>2

\* handle_read_requests makes packets, ...
LEMMA ReadEventsTyped ==
  ASSUME NEW p \in Event
  PROVE  ReadEvents(p) \in Seq(Event)
<1> DEFINE op(i) == CASE p.len = 1 -> "RESP_ONLY"
                      [] p.len > 1 /\ i = 1 -> "RESP_FIRST"
                      [] p.len > 1 /\ i = p.len -> "RESP_LAST"
                      [] OTHER -> "RESP_MIDDLE"
           ev(i) == [p EXCEPT !.psn = Plus(@, i - 1), !.off = @ + i - 1, !.len = 1, !.op = op(i)]
           l == IF p.len >= 0 THEN p.len ELSE 0
<1>1. p.len \in Int /\ p.psn \in Int /\ p.off \in Nat /\ p.req \in 0 .. MaxReq
  BY DEF Event, Psn
<1>2. \A i \in Nat : op(i) \in {"RESP_ONLY", "RESP_FIRST", "RESP_MIDDLE", "RESP_LAST"}
  BY <1>1
<1>3. \A i \in 1 .. p.len : ev(i) \in Event
  <2> TAKE i \in 1 .. p.len
  <2>1. i \in Nat /\ i >= 1 /\ p.off + i - 1 \in Nat /\ i - 1 \in Int
    BY <1>1
  <2>2. Plus(p.psn, i - 1) \in Psn
    BY <1>1, <2>1, PlusPsn
  <2>3. op(i) \in {"RESP_ONLY", "RESP_FIRST", "RESP_MIDDLE", "RESP_LAST"}
    BY <1>2, <2>1
  <2> DEFINE q == Plus(p.psn, i - 1)
             o == p.off + i - 1
             x == op(i)
  <2>4. ev(i) = [p EXCEPT !.psn = q, !.off = o, !.len = 1, !.op = x]
    OBVIOUS
  <2>5. q \in Psn /\ o \in Nat /\ x \in {"RESP_ONLY", "RESP_FIRST", "RESP_MIDDLE", "RESP_LAST"}
    BY <2>1, <2>2, <2>3
  <2> HIDE DEF q, o, x, ev, op
  <2>6. [p EXCEPT !.psn = q, !.off = o, !.len = 1, !.op = x] \in Event
    <3>1. x \in OpSet /\ 1 \in Int
      BY <2>5 DEF OpSet
    <3> QED
      BY <3>1, <2>5, EventUpdated
  <2> QED
    BY <2>4, <2>6
<1>4. ReadEvents(p) = [i \in 1 .. p.len |-> ev(i)]
  BY DEF ReadEvents
<1>5. l \in Nat /\ 1 .. p.len = 1 .. l
  BY <1>1
<1> HIDE DEF ev, l
<1>6. [i \in 1 .. l |-> ev(i)] \in Seq(Event)
  <2>1. \A i \in 1 .. l : ev(i) \in Event
    BY <1>3, <1>5
  <2> QED
    BY <2>1, <1>5
<1> QED
  BY <1>4, <1>5, <1>6

\* ... which carry the PSNs of the read from where it was asked for.
LEMMA ReadEventsHonest ==
  ASSUME NEW R \in Seq(KindSet), NEW S \in Seq(Psn), NEW n \in Psn, InPhase(R, S, n),
         NEW p \in Event, Good(p, R, S), p.op = "READ", NEW ep, NEW W,
         \A k \in 1 .. p.req - 1 : R[k] # "READ" => Done(k, W),
         NEW a \in Range(ReadEvents(p))
  PROVE  Honest(a, R, S, ep, W)
<1>1. PICK i \in 1 .. p.len : a = ReadEvents(p)[i]
  BY DEF Range, ReadEvents
<1>2. /\ p.req \in 1 .. Len(R) /\ p.off \in Nat /\ p.len = Pkgs(R[p.req]) - p.off
      /\ p.psn \in Psn /\ Distance(p.psn) = Distance(S[p.req]) + p.off
      /\ Pkgs(R[p.req]) \in Nat
  BY PkgsIs DEF Good
<1>3. i \in Nat /\ i >= 1 /\ p.off + (i - 1) < Pkgs(R[p.req]) /\ i - 1 \in Nat /\ p.off + (i - 1) \in Nat
      /\ p.off + i - 1 = p.off + (i - 1)
  BY <1>2
<1>4. a.req = p.req /\ a.off = p.off + (i - 1) /\ a.psn = Plus(p.psn, i - 1)
  BY <1>1, <1>3 DEF ReadEvents, Event
<1>5. a.op \in {"RESP_ONLY", "RESP_FIRST", "RESP_MIDDLE", "RESP_LAST"}
  <2>1. a.op = CASE p.len = 1 -> "RESP_ONLY"
                 [] p.len > 1 /\ i = 1 -> "RESP_FIRST"
                 [] p.len > 1 /\ i = p.len -> "RESP_LAST"
                 [] OTHER -> "RESP_MIDDLE"
    BY <1>1 DEF ReadEvents, Event
  <2> QED
    BY <2>1, <1>2, <1>3
<1>6. S[p.req] \in Psn /\ Distance(S[p.req]) \in Nat /\ Distance(S[p.req]) + Pkgs(R[p.req]) < PsnMod
  <2>1. S[p.req] \in Psn /\ Distance(S[p.req]) \in Nat /\ Distance(n) \in Nat /\ Distance(n) < PsnMod
        /\ Distance(S[p.req]) + Pkgs(R[p.req]) <= Distance(n) /\ PsnMod \in Nat
    BY <1>2, Starts, Modulus
  <2> QED
    BY <2>1, <1>2
<1>7. \A d, o, g, m, x \in Nat : d + g < m /\ o + x < g => d + o + x < m /\ d + (o + x) < m
  OBVIOUS
<1>8. /\ Distance(p.psn) + (i - 1) < PsnMod /\ Distance(S[p.req]) + (p.off + (i - 1)) < PsnMod
      /\ Distance(p.psn) + (i - 1) = Distance(S[p.req]) + (p.off + (i - 1))
  <2>1. PsnMod \in Nat
    BY Modulus
  <2> QED
    BY <2>1, <1>2, <1>3, <1>6, <1>7
<1>9. /\ Plus(p.psn, i - 1) \in Psn /\ Distance(Plus(p.psn, i - 1)) = Distance(p.psn) + (i - 1)
      /\ Plus(S[p.req], p.off + (i - 1)) \in Psn
      /\ Distance(Plus(S[p.req], p.off + (i - 1))) = Distance(S[p.req]) + (p.off + (i - 1))
  BY <1>2, <1>3, <1>6, <1>8, Onward
<1>10. a.psn = Plus(S[a.req], a.off)
  BY <1>4, <1>8, <1>9, SameDistance
<1> QED
  BY <1>2, <1>4, <1>5, <1>10 DEF Honest

-----------------------------------------------------------------------------
(* The list of the retransmitter. *)

\* The indices q are linked from the head to the tail, and those that are not
\* among them are free.
IsList(q, mt, pt, fq) ==
  /\ q \in Seq(Slot) /\ fq \in Seq(Slot) /\ Len(q) + Len(fq) = TableSize
  /\ \A i, j \in 1 .. Len(q) : q[i] = q[j] => i = j
  /\ \A i, j \in 1 .. Len(fq) : fq[i] = fq[j] => i = j
  /\ \A i \in 1 .. Len(q), j \in 1 .. Len(fq) : q[i] # fq[j]
  /\ pt.valid <=> Len(q) > 0
  /\ Len(q) > 0 => pt.head = q[1] /\ pt.tail = q[Len(q)]
  /\ \A i \in 1 .. Len(q) : mt[q[i]].isTail <=> i = Len(q)
  /\ \A i \in 1 .. Len(q) - 1 : mt[q[i]].next = q[i + 1]

MetaEntry == [ev : Event, next : Slot, isTail : BOOLEAN]
PtrEntry == [head : Slot, tail : Slot, valid : BOOLEAN]

LEMMA LeastNat ==
  ASSUME NEW A, A \subseteq Nat, A # {}
  PROVE  \E x \in A : \A y \in A : x <= y
<1>1. \E x \in A : \A y \in A : <<y, x>> \notin OpToRel(<, Nat)
  BY NatLessThanWellFounded, WFMin
<1>2. \A x, y \in Nat : y < x => <<y, x>> \in OpToRel(<, Nat)
  BY DEF OpToRel
<1>3. \A x, y \in Nat : y < x \/ x <= y
  OBVIOUS
<1> QED
  BY <1>1, <1>2, <1>3

\* g goes from h along f, m times.
IsPath(g, f, h, m) == g[0] = h /\ \A n \in 1 .. m : g[n] = f[g[n - 1]]

\* Links can be followed as often as one likes.
LEMMA PathExists ==
  ASSUME NEW T, NEW f \in [T -> T], NEW h \in T, NEW m \in Nat
  PROVE  \E g \in [0 .. m -> T] : IsPath(g, f, h, m)
<1> USE DEF IsPath
<1> DEFINE Path(l, g) == IsPath(g, f, h, l)
           A == {l \in Nat : ~ \E g \in [0 .. l -> T] : Path(l, g)}
<1>1. SUFFICES ASSUME A # {} PROVE FALSE
  OBVIOUS
<1>2. PICK l \in A : \A y \in A : l <= y
  <2>1. A \subseteq Nat
    OBVIOUS
  <2> HIDE DEF A
  <2> QED
    BY <2>1, <1>1, LeastNat
<1>3. l \in Nat /\ ~ \E g \in [0 .. l -> T] : Path(l, g)
  OBVIOUS
<1>4. l # 0
  <2>1. Path(0, [n \in 0 .. 0 |-> h]) /\ [n \in 0 .. 0 |-> h] \in [0 .. 0 -> T]
    OBVIOUS
  <2> QED
    BY <2>1, <1>3
<1>5. l - 1 \in Nat /\ l - 1 \notin A
  <2>1. l - 1 \in Nat /\ ~(l <= l - 1)
    BY <1>3, <1>4
  <2> HIDE DEF A
  <2> QED
    BY <2>1, <1>2
<1>6. PICK g \in [0 .. l - 1 -> T] : Path(l - 1, g)
  BY <1>5
<1> DEFINE e == [n \in 0 .. l |-> IF n = l THEN f[g[l - 1]] ELSE g[n]]
<1>7. l - 1 \in 0 .. l - 1 /\ (\A n \in 0 .. l : n # l => n \in 0 .. l - 1) /\ 0 \in 0 .. l /\ 0 # l
      /\ l \in 0 .. l /\ l - 1 \in 0 .. l /\ l - 1 # l
  BY <1>3, <1>4
<1>8. e \in [0 .. l -> T]
  <2>1. f[g[l - 1]] \in T
    BY <1>6, <1>7
  <2>2. \A n \in 0 .. l : n # l => g[n] \in T
    BY <1>6, <1>7
  <2> QED
    BY <2>1, <2>2
<1>9. e[0] = h
  BY <1>6, <1>7
<1>10. \A n \in 1 .. l : e[n] = f[e[n - 1]]
  <2> TAKE n \in 1 .. l
  <2>1. n \in 0 .. l /\ n - 1 \in 0 .. l /\ n - 1 # l
    BY <1>3
  <2>2. e[n - 1] = g[n - 1]
    BY <2>1
  <2>3. CASE n = l
    BY <2>1, <2>2, <2>3
  <2>4. CASE n # l
    <3>1. n \in 1 .. l - 1
      BY <2>4, <1>3
    <3> QED
      BY <3>1, <2>1, <2>2, <2>4, <1>6
  <2> QED
    BY <2>3, <2>4
<1> HIDE DEF e
<1> QED
  BY <1>3, <1>8, <1>9, <1>10

\* The recursive definition of Index has the solution it describes.
LEMMA IndexIs ==
  ASSUME mtable \in [Slot -> MetaEntry], ptr \in PtrEntry
  PROVE  /\ Index[0] = ptr.head
         /\ \A n \in 1 .. TableSize - 1 : Index[n] = mtable[Index[n - 1]].next
<1> DEFINE m == TableSize - 1
           f == [s \in Slot |-> mtable[s].next]
           Eq(g) == g = [n \in 0 .. m |-> IF n = 0 THEN ptr.head ELSE mtable[g[n - 1]].next]
<1>1. TableSize \in Nat /\ TableSize >= 1 /\ m \in Nat /\ Slot = 0 .. m
  BY RoceAssumption DEF Slot
<1>2. f \in [Slot -> Slot] /\ ptr.head \in Slot
  BY DEF MetaEntry, PtrEntry
<1>3. PICK g \in [0 .. m -> Slot] : g[0] = ptr.head /\ \A n \in 1 .. m : g[n] = f[g[n - 1]]
  <2>1. m \in Nat
    BY <1>1
  <2> HIDE DEF m, f
  <2>2. \E g \in [0 .. m -> Slot] : IsPath(g, f, ptr.head, m)
    BY <2>1, <1>2, PathExists
  <2> QED
    BY <2>2 DEF IsPath
<1>4. \A n \in 0 .. m : g[n] = IF n = 0 THEN ptr.head ELSE mtable[g[n - 1]].next
  <2> TAKE n \in 0 .. m
  <2>1. CASE n = 0
    BY <2>1, <1>3
  <2>2. CASE n # 0
    <3>1. n \in 1 .. m /\ n - 1 \in 0 .. m
      BY <2>2, <1>1
    <3>2. g[n - 1] \in Slot
      BY <3>1, <1>3
    <3> QED
      BY <2>2, <3>1, <3>2, <1>3
  <2> QED
    BY <2>1, <2>2
<1>5. Eq(g)
  BY <1>3, <1>4
<1>6. Index = CHOOSE h : Eq(h)
  BY DEF Index
<1>7. Eq(Index)
  <2> HIDE DEF Eq
  <2> QED
    BY <1>5, <1>6
<1>8. 0 \in 0 .. m /\ \A n \in 1 .. m : n \in 0 .. m /\ n # 0
  BY <1>1
<1> QED
  BY <1>7, <1>8

\* Chain is what the indices of the list hold.
LEMMA ChainIs ==
  ASSUME mtable \in [Slot -> MetaEntry], ptr \in PtrEntry, NEW q, IsList(q, mtable, ptr, freeq)
  PROVE  /\ Chain = [i \in 1 .. Len(q) |-> mtable[q[i]].ev]
         /\ Chain \in Seq(Event) /\ Len(Chain) = Len(q)
         /\ \A i \in 1 .. Len(q) : q[i] \in Slot /\ Chain[i] = mtable[q[i]].ev
<1> DEFINE l == Len(q)
<1>1. q \in Seq(Slot) /\ l \in Nat /\ TableSize \in Nat /\ l <= TableSize
  <2>1. q \in Seq(Slot) /\ freeq \in Seq(Slot) /\ Len(q) + Len(freeq) = TableSize
    BY DEF IsList
  <2> QED
    BY <2>1, RoceAssumption
<1>2. \A i \in 1 .. l : q[i] \in Slot
  BY <1>1
<1>3. Chain = [i \in 1 .. l |-> mtable[q[i]].ev]
  <2>1. CASE l = 0
    <3>1. ~ptr.valid
      BY <2>1 DEF IsList
    <3>2. [i \in 1 .. l |-> mtable[q[i]].ev] = <<>>
      BY <2>1
    <3> QED
      BY <3>1, <3>2 DEF Chain
  <2>2. CASE l # 0
    <3>1. ptr.valid /\ ptr.head = q[1] /\ l > 0
      BY <2>2, <1>1 DEF IsList
    <3>2. \A k \in 0 .. l - 1 : Index[k] = q[k + 1]
      <4> DEFINE A == {k \in 0 .. l - 1 : Index[k] # q[k + 1]}
      <4>1. SUFFICES ASSUME A # {} PROVE FALSE
        OBVIOUS
      <4>2. A \subseteq Nat
        BY <1>1
      <4>3. PICK k \in A : \A y \in A : k <= y
        <5> HIDE DEF A
        <5> QED
          BY <4>1, <4>2, LeastNat
      <4>4. k \in 0 .. l - 1 /\ Index[k] # q[k + 1]
        OBVIOUS
      <4>5. k # 0
        BY <3>1, <4>4, IndexIs
      <4>6. k \in Nat /\ k - 1 \in 0 .. l - 1 /\ ~(k <= k - 1) /\ (k - 1) + 1 = k /\ k \in 1 .. l - 1
            /\ k \in 1 .. TableSize - 1
        BY <1>1, <4>4, <4>5
      <4>7. Index[k - 1] = q[k]
        <5>1. k - 1 \notin A
          <6> HIDE DEF A
          <6> QED
            BY <4>3, <4>6
        <5> QED
          BY <5>1, <4>6
      <4>8. Index[k] = mtable[Index[k - 1]].next
        BY <4>6, IndexIs
      <4>9. mtable[q[k]].next = q[k + 1]
        BY <4>6 DEF IsList
      <4> QED
        BY <4>4, <4>7, <4>8, <4>9
    <3> DEFINE Final(k) == mtable[Index[k]].isTail /\ \A j \in 0 .. k - 1 : ~mtable[Index[j]].isTail
               n == CHOOSE k \in 0 .. TableSize - 1 : Final(k)
    <3>3. \A k \in 0 .. l - 1 : mtable[Index[k]].isTail <=> k = l - 1
      <4> TAKE k \in 0 .. l - 1
      <4>1. k + 1 \in 1 .. l /\ (k + 1 = l <=> k = l - 1)
        BY <1>1
      <4>2. mtable[q[k + 1]].isTail <=> k + 1 = l
        BY <4>1 DEF IsList
      <4> QED
        BY <3>2, <4>1, <4>2
    <3>4. l - 1 \in 0 .. TableSize - 1 /\ l - 1 \in 0 .. l - 1 /\ \A j \in 0 .. (l - 1) - 1 : j \in 0 .. l - 1 /\ j # l - 1
      BY <1>1, <3>1
    <3>5. Final(l - 1)
      BY <3>3, <3>4
    <3>6. \A k \in 0 .. TableSize - 1 : Final(k) => k = l - 1
      <4> TAKE k \in 0 .. TableSize - 1
      <4> HAVE Final(k)
      <4>1. k \in 0 .. l - 1 \/ l - 1 \in 0 .. k - 1
        BY <1>1, <3>1
      <4> QED
        BY <4>1, <3>3, <3>4
    <3>7. n = l - 1
      <4> HIDE DEF Final
      <4> QED
        BY <3>4, <3>5, <3>6
    <3>8. Chain = [i \in 1 .. n + 1 |-> mtable[Index[i - 1]].ev]
      BY <3>1 DEF Chain
    <3> HIDE DEF n
    <3>9. n + 1 = l
      BY <3>7, <1>1
    <3>10. \A i \in 1 .. l : Index[i - 1] = q[i]
      <4>1. \A i \in 1 .. l : i - 1 \in 0 .. l - 1 /\ (i - 1) + 1 = i
        BY <1>1
      <4> QED
        BY <4>1, <3>2
    <3> QED
      BY <3>8, <3>9, <3>10
  <2> QED
    BY <2>1, <2>2
<1>4. \A i \in 1 .. l : mtable[q[i]].ev \in Event
  BY <1>2 DEF MetaEntry
<1>5. Chain \in Seq(Event) /\ Len(Chain) = l
  BY <1>1, <1>3, <1>4
<1> QED
  BY <1>2, <1>3, <1>5

\* Releasing the head leaves the list of the others.
LEMMA ListPopped ==
  ASSUME NEW mt \in [Slot -> MetaEntry], NEW pt \in PtrEntry, NEW fq, NEW q,
         IsList(q, mt, pt, fq), pt.valid
  PROVE  /\ q # <<>> /\ pt.head \in Slot
         /\ IsList(Tail(q), mt,
                   [pt EXCEPT !.head = mt[pt.head].next, !.valid = ~mt[pt.head].isTail],
                   Append(fq, pt.head))
<1> DEFINE l == Len(q)
           h == pt.head
           pn == [pt EXCEPT !.head = mt[h].next, !.valid = ~mt[h].isTail]
           u == Tail(q)
           fn == Append(fq, h)
<1>1. q \in Seq(Slot) /\ fq \in Seq(Slot) /\ l + Len(fq) = TableSize /\ l > 0 /\ l \in Nat /\ Len(fq) \in Nat
  BY DEF IsList
<1>2. q # <<>> /\ h = q[1] /\ h \in Slot /\ pt.tail = q[l] /\ 1 \in 1 .. l
  BY <1>1 DEF IsList
<1>3. u \in Seq(Slot) /\ Len(u) = l - 1 /\ \A i \in 1 .. l - 1 : u[i] = q[i + 1]
  BY <1>1, <1>2, Tailed
<1>4. /\ fn \in Seq(Slot) /\ Len(fn) = Len(fq) + 1 /\ fn[Len(fq) + 1] = h
      /\ \A i \in 1 .. Len(fq) : fn[i] = fq[i]
  BY <1>1, <1>2, Appended
<1>5. pn.head = mt[h].next /\ pn.tail = pt.tail /\ (pn.valid <=> ~mt[h].isTail)
  BY DEF PtrEntry
<1> HIDE DEF u, fn, pn, h
<1>6. \A i \in 1 .. l - 1 : i + 1 \in 1 .. l /\ u[i] = q[i + 1]
  BY <1>1, <1>3
<1>7. \A i, j \in 1 .. l - 1 : u[i] = u[j] => i = j
  <2>1. \A i, j \in 1 .. l : q[i] = q[j] => i = j
    BY DEF IsList
  <2>2. \A i, j \in 1 .. l - 1 : u[i] = u[j] => i + 1 = j + 1
    BY <2>1, <1>6
  <2> QED
    BY <2>2, <1>1
<1>8. \A i \in 1 .. Len(fq) + 1 : i \in 1 .. Len(fq) \/ i = Len(fq) + 1
  BY <1>1
<1>9. \A j \in 1 .. Len(fq) : fq[j] # h
  BY <1>2 DEF IsList
<1>10. \A i, j \in 1 .. Len(fq) + 1 : fn[i] = fn[j] => i = j
  <2>1. \A i, j \in 1 .. Len(fq) : fq[i] = fq[j] => i = j
    BY DEF IsList
  <2> QED
    BY <2>1, <1>4, <1>8, <1>9
<1>11. \A i \in 1 .. l - 1 : u[i] # h
  <2>1. \A i \in 1 .. l - 1 : i + 1 # 1
    BY <1>1
  <2>2. \A i, j \in 1 .. l : q[i] = q[j] => i = j
    BY DEF IsList
  <2> QED
    BY <2>1, <2>2, <1>2, <1>6
<1>12. \A i \in 1 .. l - 1, j \in 1 .. Len(fq) + 1 : u[i] # fn[j]
  <2>1. \A i \in 1 .. l, j \in 1 .. Len(fq) : q[i] # fq[j]
    BY DEF IsList
  <2> QED
    BY <2>1, <1>4, <1>6, <1>8, <1>11
<1>13. mt[h].isTail <=> 1 = l
  BY <1>2 DEF IsList
<1>14. pn.valid <=> l - 1 > 0
  <2>1. \A x \in Nat : x > 0 => (~(1 = x) <=> x - 1 > 0)
    OBVIOUS
  <2>2. ~(1 = l) <=> l - 1 > 0
    BY <2>1, <1>1
  <2> QED
    BY <2>2, <1>5, <1>13
<1>15. l - 1 > 0 => pn.head = u[1] /\ pn.tail = u[l - 1]
  <2> HAVE l - 1 > 0
  <2>1. 1 \in 1 .. l - 1 /\ l - 1 \in 1 .. l - 1 /\ (l - 1) + 1 = l /\ 1 + 1 = 2
    BY <1>1
  <2>2. mt[q[1]].next = q[1 + 1]
    BY <2>1 DEF IsList
  <2> QED
    BY <2>1, <2>2, <1>2, <1>5, <1>6
<1>16. \A i \in 1 .. l - 1 : mt[u[i]].isTail <=> i = l - 1
  <2>1. \A i \in 1 .. l : mt[q[i]].isTail <=> i = l
    BY DEF IsList
  <2>2. \A i \in 1 .. l - 1 : i + 1 = l <=> i = l - 1
    BY <1>1
  <2> QED
    BY <2>1, <2>2, <1>6
<1>17. \A i \in 1 .. (l - 1) - 1 : mt[u[i]].next = u[i + 1]
  <2> TAKE i \in 1 .. (l - 1) - 1
  <2>1. i + 1 \in 1 .. l - 1 /\ i \in 1 .. l - 1
    BY <1>1
  <2>2. mt[q[i + 1]].next = q[(i + 1) + 1]
    BY <2>1 DEF IsList
  <2> QED
    BY <2>1, <2>2, <1>6
<1>18. (l - 1) + (Len(fq) + 1) = TableSize
  BY <1>1
<1>19. IsList(u, mt, pn, fn)
  BY <1>3, <1>4, <1>7, <1>10, <1>12, <1>14, <1>15, <1>16, <1>17, <1>18 DEF IsList
<1> QED
  BY <1>2, <1>19 DEF u, pn, fn, h

\* What an entry stands for may change without the list.
LEMMA ListRelabelled ==
  ASSUME NEW mt, NEW mn, NEW pt, NEW fq, NEW q, IsList(q, mt, pt, fq),
         \A i \in 1 .. Len(q) : mn[q[i]].next = mt[q[i]].next /\ (mn[q[i]].isTail <=> mt[q[i]].isTail)
  PROVE  IsList(q, mn, pt, fq)
<1>1. \A i \in 1 .. Len(q) : mn[q[i]].isTail <=> i = Len(q)
  BY DEF IsList
<1>2. \A i \in 1 .. Len(q) - 1 : i \in 1 .. Len(q)
  <2>1. Len(q) \in Nat
    BY DEF IsList
  <2> QED
    BY <2>1
<1>3. \A i \in 1 .. Len(q) - 1 : mn[q[i]].next = q[i + 1]
  BY <1>2 DEF IsList
<1> QED
  BY <1>1, <1>3 DEF IsList

\* A free index that becomes the tail, whether there was a list or not.
LEMMA ListGrown ==
  ASSUME NEW mt, NEW mn, NEW pt, NEW pn, NEW fq, NEW q, IsList(q, mt, pt, fq), fq # <<>>,
         NEW x, x = Head(fq),
         mn[x].isTail, pn.valid, pn.tail = x,
         pn.head = IF Len(q) = 0 THEN x ELSE pt.head,
         \A i \in 1 .. Len(q) : i # Len(q) => mn[q[i]] = mt[q[i]],
         Len(q) > 0 => mn[q[Len(q)]].next = x /\ ~mn[q[Len(q)]].isTail
  PROVE  IsList(Append(q, x), mn, pn, Tail(fq))
<1> DEFINE l == Len(q)
           u == Append(q, x)
           m == Len(fq)
           g == Tail(fq)
<1>1. q \in Seq(Slot) /\ fq \in Seq(Slot) /\ l + m = TableSize /\ l \in Nat /\ m \in Nat
  BY DEF IsList
<1>2. g \in Seq(Slot) /\ Len(g) = m - 1 /\ m >= 1 /\ x = fq[1] /\ x \in Slot
      /\ \A i \in 1 .. m - 1 : g[i] = fq[i + 1]
  BY <1>1, Tailed
<1>3. u \in Seq(Slot) /\ Len(u) = l + 1 /\ u[l + 1] = x /\ \A i \in 1 .. l : u[i] = q[i]
  BY <1>1, <1>2, Appended
<1> HIDE DEF u, g
<1>4. 1 \in 1 .. m /\ \A i \in 1 .. m - 1 : i + 1 \in 1 .. m /\ i + 1 # 1
  BY <1>1, <1>2
<1>5. \A i \in 1 .. l + 1 : i \in 1 .. l \/ i = l + 1
  BY <1>1
<1>6. \A i, j \in 1 .. m : fq[i] = fq[j] => i = j
  BY DEF IsList
<1>7. \A i \in 1 .. l, j \in 1 .. m : q[i] # fq[j]
  BY DEF IsList
<1>8. \A i \in 1 .. l : q[i] # x
  BY <1>2, <1>4, <1>7
<1>9. \A i, j \in 1 .. l + 1 : u[i] = u[j] => i = j
  <2>1. \A i, j \in 1 .. l : q[i] = q[j] => i = j
    BY DEF IsList
  <2> QED
    BY <2>1, <1>3, <1>5, <1>8
<1>10. \A i, j \in 1 .. m - 1 : g[i] = g[j] => i = j
  <2>1. \A i, j \in 1 .. m - 1 : g[i] = g[j] => i + 1 = j + 1
    BY <1>2, <1>4, <1>6
  <2> QED
    BY <2>1, <1>1
<1>11. \A i \in 1 .. l + 1, j \in 1 .. m - 1 : u[i] # g[j]
  <2>1. \A j \in 1 .. m - 1 : g[j] # x
    BY <1>2, <1>4, <1>6
  <2>2. \A i \in 1 .. l, j \in 1 .. m - 1 : q[i] # g[j]
    BY <1>2, <1>4, <1>7
  <2> QED
    BY <2>1, <2>2, <1>3, <1>5
<1>12. l + 1 > 0 /\ (l + 1) + (m - 1) = TableSize
  BY <1>1
<1>13. pn.head = u[1] /\ pn.tail = u[l + 1]
  <2>1. CASE l = 0
    BY <2>1, <1>3
  <2>2. CASE l # 0
    <3>1. l > 0 /\ 1 \in 1 .. l
      BY <2>2, <1>1
    <3>2. pt.head = q[1]
      BY <3>1 DEF IsList
    <3> QED
      BY <2>2, <3>1, <3>2, <1>3
  <2> QED
    BY <2>1, <2>2
<1>14. \A i \in 1 .. l + 1 : mn[u[i]].isTail <=> i = l + 1
  <2>1. \A i \in 1 .. l : mt[q[i]].isTail <=> i = l
    BY DEF IsList
  <2>2. \A i \in 1 .. l : i # l + 1 /\ l > 0
    BY <1>1
  <2>3. \A i \in 1 .. l : ~mn[q[i]].isTail
    BY <2>1, <2>2
  <2> QED
    BY <2>2, <2>3, <1>3, <1>5
<1>15. \A i \in 1 .. (l + 1) - 1 : mn[u[i]].next = u[i + 1]
  <2> TAKE i \in 1 .. (l + 1) - 1
  <2>1. i \in 1 .. l /\ l > 0
    BY <1>1
  <2>2. CASE i = l
    BY <2>1, <2>2, <1>3
  <2>3. CASE i # l
    <3>1. i \in 1 .. l - 1 /\ i + 1 \in 1 .. l
      BY <2>1, <2>3, <1>1
    <3>2. mt[q[i]].next = q[i + 1]
      BY <3>1 DEF IsList
    <3> QED
      BY <2>1, <2>3, <3>1, <3>2, <1>3
  <2> QED
    BY <2>2, <2>3
<1>16. IsList(u, mn, pn, g)
  BY <1>2, <1>3, <1>9, <1>10, <1>11, <1>12, <1>13, <1>14, <1>15 DEF IsList
<1> QED
  BY <1>16 DEF u, g

-----------------------------------------------------------------------------
(* The invariant. *)

TxTypes == reqs \in Seq(KindSet) /\ Len(reqs) <= MaxReq /\ next \in Psn /\ psnOf \in Seq(Psn)

RtTypes ==
  /\ insq \in Seq(Event) /\ rtev \in Seq(Event)
  /\ mtable \in [Slot -> MetaEntry] /\ ptr \in PtrEntry
  /\ rt \in {"MAIN", "RETRANS_1"} /\ miscut \in BOOLEAN

TmTypes ==
  /\ timer \in [active : BOOLEAN, retries : 0 .. MaxRetries]
  /\ expired \in BOOLEAN /\ late \in 0 .. MaxLate

Loaded == [pkt : Event, epsn : Psn, maxf : Psn]
RxTypes == unack \in Psn /\ arx \in {None} \cup Loaded /\ aexh \in Seq(Event)

RspTypes ==
  /\ epsn \in Psn /\ nakOk \in BOOLEAN /\ bdma \in Nat
  /\ bexh \in Seq(Event) /\ ackq \in Seq(Event) /\ readq \in Seq(Event)
  /\ written \in Seq(WriteRec)

NetTypes == fwd \in Seq(Event) /\ back \in Seq(Event) /\ faults \in 0 .. MaxFaults

Types == TxTypes /\ RtTypes /\ TmTypes /\ RxTypes /\ RspTypes /\ NetTypes

GoodAll(s, R, S) == \A e \in Range(s) : Good(e, R, S)
HonestAll(s, R, S, ep, W) == \A a \in Range(s) : Honest(a, R, S, ep, W)
GoodList(q, mt, R, S) == \A i \in 1 .. Len(q) : Good(mt[q[i]].ev, R, S)

\* The retransmitter holds requests, unless an entry was cut for another's
\* response.
ListInv ==
  \E q : /\ IsList(q, mtable, ptr, freeq)
         /\ ~miscut => GoodList(q, mtable, reqs, psnOf)

\* What is under way, and what the responder has made of it.
Sound ==
  /\ AtRequest(reqs, psnOf, next, epsn)
  /\ GoodAll(fwd, reqs, psnOf) /\ GoodAll(insq, reqs, psnOf) /\ GoodAll(rtev, reqs, psnOf)
  /\ Executed(reqs, psnOf, epsn, written, bexh)
  /\ HonestAll(ackq, reqs, psnOf, epsn, written)
  /\ HonestAll(readq, reqs, psnOf, epsn, written)
  /\ HonestAll(back, reqs, psnOf, epsn, written)

RoceInv == Types /\ InPhase(reqs, psnOf, next) /\ ListInv /\ (~miscut => Sound)

\* A queue that grows by a packet, or loses some.
LEMMA GoodMore ==
  ASSUME NEW s \in Seq(Event), NEW e \in Event, NEW R, NEW S, GoodAll(s, R, S), Good(e, R, S)
  PROVE  GoodAll(Append(s, e), R, S)
BY Appended DEF GoodAll

LEMMA GoodFewer ==
  ASSUME NEW s, NEW t, Range(t) \subseteq Range(s), NEW R, NEW S, GoodAll(s, R, S)
  PROVE  GoodAll(t, R, S)
BY DEF GoodAll

LEMMA HonestOneMore ==
  ASSUME NEW s \in Seq(Event), NEW e \in Event, NEW R, NEW S, NEW ep, NEW W,
         HonestAll(s, R, S, ep, W), Honest(e, R, S, ep, W)
  PROVE  HonestAll(Append(s, e), R, S, ep, W)
BY Appended DEF HonestAll

LEMMA HonestFewer ==
  ASSUME NEW s, NEW t, Range(t) \subseteq Range(s), NEW R, NEW S, NEW ep, NEW W,
         HonestAll(s, R, S, ep, W)
  PROVE  HonestAll(t, R, S, ep, W)
BY DEF HonestAll

\* The head of a queue of packets.
LEMMA QueueHead ==
  ASSUME NEW s \in Seq(Event), s # <<>>
  PROVE  /\ Head(s) \in Event /\ Head(s) \in Range(s)
         /\ Tail(s) \in Seq(Event) /\ Range(Tail(s)) \subseteq Range(s)
BY Tailed

LEMMA InitInv == Init => RoceInv
<1> SUFFICES ASSUME Init PROVE RoceInv
  OBVIOUS
<1> USE DEF Init
<1>1. StartPsn \in Psn /\ Distance(StartPsn) = 0
  BY StartInPsn, DistanceIs
<1>2. None \in Event
  <2>1. 0 \in 0 .. MaxReq
    BY Modulus
  <2> QED
    BY <2>1 DEF None, Event
<1>3. TableSize \in Nat /\ TableSize >= 1 /\ 0 \in Slot /\ \A i \in 1 .. TableSize : i - 1 \in Slot
  BY RoceAssumption DEF Slot
<1>4. TxTypes
  BY <1>1, Modulus DEF TxTypes
<1>5. RtTypes
  <2>1. mtable \in [Slot -> MetaEntry]
    BY <1>2, <1>3 DEF MetaEntry, Slot
  <2>2. ptr \in PtrEntry
    BY <1>3 DEF PtrEntry
  <2>3. <<>> \in Seq(Event)
    OBVIOUS
  <2> QED
    BY <2>1, <2>2, <2>3 DEF RtTypes
<1>6. TmTypes
  <2>1. MaxRetries \in Nat /\ MaxLate \in Nat
    BY RoceAssumption
  <2>2. 0 \in 0 .. MaxRetries /\ 0 \in 0 .. MaxLate
    BY <2>1
  <2> QED
    BY <2>2 DEF TmTypes
<1>7. RxTypes
  BY <1>1 DEF RxTypes
<1>8. RspTypes /\ NetTypes
  BY <1>1, RoceAssumption DEF RspTypes, NetTypes
<1>9. Len(<<>>) = 0 /\ \A i : i \notin 1 .. 0
  OBVIOUS
<1>10. InPhase(reqs, psnOf, next)
  <2>1. Len(reqs) = 0 /\ Len(psnOf) = 0 /\ 0 * ReadPkgs = 0 /\ 0 - 1 = -1
    BY Modulus
  <2>2. \A i : i \notin 1 .. -1
    OBVIOUS
  <2> QED
    BY <2>1, <2>2, <1>1, <1>9 DEF InPhase
<1>11. ListInv
  <2>1. freeq \in Seq(Slot) /\ Len(freeq) = TableSize
    BY <1>3
  <2>2. \A i, j \in 1 .. TableSize : freeq[i] = freeq[j] => i = j
    BY <1>3
  <2>3. <<>> \in Seq(Slot) /\ 0 + TableSize = TableSize /\ ~ptr.valid /\ \A i : i \notin 1 .. 0 - 1
    BY <1>3
  <2>4. IsList(<<>>, mtable, ptr, freeq)
    <3> HIDE DEF Init
    <3> QED
      BY <2>1, <2>2, <2>3, <1>9 DEF IsList
  <2>5. GoodList(<<>>, mtable, reqs, psnOf)
    BY <1>9 DEF GoodList
  <2> QED
    BY <2>4, <2>5 DEF ListInv
<1>12. Sound
  <2>1. AtRequest(reqs, psnOf, next, epsn)
    BY DEF AtRequest
  <2>2. Range(<<>>) = {}
    BY DEF Range
  <2>3. Executed(reqs, psnOf, epsn, written, bexh)
    BY <1>9 DEF Executed
  <2> QED
    BY <2>1, <2>2, <2>3 DEF Sound, GoodAll, HonestAll
<1> QED
  BY <1>4, <1>5, <1>6, <1>7, <1>8, <1>10, <1>11, <1>12 DEF RoceInv, Types

-----------------------------------------------------------------------------
(* The requester sends. *)

\* The send queue carries a request of some kind, and not too many.
LEMMA NextKindsAre ==
  ASSUME TxTypes, NEW k \in NextKinds
  PROVE  k \in KindSet /\ Len(reqs) < MaxReq
<1>1. PICK w \in Workloads : IsStrictPrefix(reqs, w) /\ k = w[Len(reqs) + 1]
  BY DEF NextKinds
<1>2. w \in Seq(KindSet) /\ Len(w) <= MaxReq /\ Len(w) \in Nat /\ MaxReq \in Nat
  BY RoceAssumption DEF KindSet
<1>3. reqs \in Seq(KindSet) /\ Len(reqs) \in Nat
  BY DEF TxTypes
<1>4. Len(reqs) <= Len(w) /\ SubSeq(reqs, 1, Len(reqs)) = SubSeq(w, 1, Len(reqs)) /\ reqs # w
  BY <1>1 DEF IsStrictPrefix, IsPrefix
<1>5. Len(reqs) # Len(w)
  <2> SUFFICES ASSUME Len(reqs) = Len(w) PROVE FALSE
    OBVIOUS
  <2>1. SubSeq(reqs, 1, Len(reqs)) = reqs
    BY <1>3
  <2>2. SubSeq(w, 1, Len(w)) = w
    BY <1>2
  <2> QED
    BY <2>1, <2>2, <1>4
<1>6. Len(reqs) < MaxReq /\ Len(reqs) + 1 \in 1 .. Len(w)
  BY <1>2, <1>3, <1>4, <1>5
<1> QED
  BY <1>1, <1>2, <1>6

\* generate_exh leaves a timer.
LEMMA TimerSet ==
  ASSUME TmTypes, NEW op, SetTimer(op), UNCHANGED <<expired, late>>
  PROVE  TmTypes'
<1>1. timer \in [active : BOOLEAN, retries : 0 .. MaxRetries]
  BY DEF TmTypes
<1>2. timer' = [timer EXCEPT !.active = @ \/ IsWrite(op) \/ op = "READ"]
  BY DEF SetTimer
<1>3. timer' \in [active : BOOLEAN, retries : 0 .. MaxRetries]
  <2> DEFINE Q == 0 .. MaxRetries
  <2> HIDE DEF Q
  <2> QED
    BY <1>1, <1>2 DEF Q
<1> QED
  BY <1>3 DEF TmTypes

\* A step that leaves the list and the requests alone.
LEMMA ListFrame ==
  ASSUME ListInv, UNCHANGED <<mtable, ptr, freeq, miscut, reqs, psnOf>>
  PROVE  ListInv'
BY DEF ListInv

LEMMA LocalReqStep ==
  ASSUME RoceInv, LocalReq
  PROVE  RoceInv'
<1>0. TxTypes /\ RtTypes /\ TmTypes /\ RxTypes /\ RspTypes /\ NetTypes /\ InPhase(reqs, psnOf, next)
  BY DEF RoceInv, Types
<1>1. PICK k \in NextKinds :
        /\ reqs' = Append(reqs, k) /\ psnOf' = Append(psnOf, next) /\ next' = Plus(next, GenerateIbh(k).len)
        /\ fwd' = Append(fwd, GenerateIbh(k)) /\ insq' = Append(insq, GenerateIbh(k)) /\ SetTimer(k)
  BY DEF LocalReq
<1>2. /\ UNCHANGED <<expired, late, mtable, ptr, freeq, rt, rtev, miscut, back, faults>>
      /\ UNCHANGED <<unack, arx, aexh>>
      /\ UNCHANGED <<epsn, nakOk, bexh, bdma, ackq, readq, written>>
  BY DEF LocalReq, rxVars, rspVars
<1> DEFINE e == [op |-> k, req |-> Len(reqs) + 1, off |-> 0, len |-> Pkgs(k), psn |-> next]
<1>3. k \in KindSet /\ Len(reqs) < MaxReq
  BY <1>0, NextKindsAre
<1>4. GenerateIbh(k) = e
  BY DEF GenerateIbh
<1>5. reqs \in Seq(KindSet) /\ psnOf \in Seq(Psn) /\ next \in Psn /\ Len(reqs) \in Nat
  BY <1>0 DEF TxTypes
<1>6. e \in Event
  <2>1. Len(reqs) + 1 \in 0 .. MaxReq
    BY <1>3, <1>5, Modulus
  <2>2. Pkgs(k) \in Int /\ k \in OpSet
    BY <1>3, PkgsIs DEF KindSet, OpSet
  <2> QED
    BY <2>1, <2>2, <1>5 DEF Event, OpSet
<1>7. next' = Plus(next, Pkgs(k))
  BY <1>1, <1>4
<1>8. next' \in Psn /\ InPhase(reqs', psnOf', next')
  BY <1>0, <1>1, <1>3, <1>5, <1>7, NextRequest
<1>9. TxTypes'
  <2>1. reqs' \in Seq(KindSet) /\ Len(reqs') = Len(reqs) + 1
    BY <1>1, <1>3, <1>5, Appended
  <2>2. psnOf' \in Seq(Psn)
    BY <1>1, <1>5, Appended
  <2>3. Len(reqs) + 1 <= MaxReq
    BY <1>3, <1>5, Modulus
  <2> QED
    BY <2>1, <2>2, <2>3, <1>8 DEF TxTypes
<1> HIDE DEF e
<1>10. insq' = Append(insq, e) /\ fwd' = Append(fwd, e)
  BY <1>1, <1>4
<1>11. RtTypes'
  BY <1>0, <1>2, <1>6, <1>10, Appended DEF RtTypes
<1>12. TmTypes'
  BY <1>0, <1>1, <1>2, TimerSet
<1>13. RxTypes' /\ RspTypes'
  BY <1>0, <1>2 DEF RxTypes, RspTypes
<1>14. NetTypes'
  BY <1>0, <1>2, <1>6, <1>10, Appended DEF NetTypes
<1>15. ListInv'
  <2>1. PICK q : IsList(q, mtable, ptr, freeq) /\ (~miscut => GoodList(q, mtable, reqs, psnOf))
    BY DEF RoceInv, ListInv
  <2>2. IsList(q, mtable', ptr', freeq')
    BY <2>1, <1>2
  <2>3. ~miscut' => GoodList(q, mtable', reqs', psnOf')
    BY <2>1, <1>0, <1>1, <1>2, <1>3, <1>5, GoodKept DEF GoodList
  <2> QED
    BY <2>2, <2>3 DEF ListInv
<1>16. ~miscut' => Sound'
  <2> SUFFICES ASSUME ~miscut' PROVE Sound'
    OBVIOUS
  <2>1. Sound
    BY <1>2 DEF RoceInv
  <2>2. Good(e, reqs', psnOf')
    BY <1>0, <1>1, <1>3, <1>5, GoodNew DEF e
  <2>3. \A s : GoodAll(s, reqs, psnOf) => GoodAll(s, reqs', psnOf')
    BY <1>0, <1>1, <1>3, <1>5, GoodKept DEF GoodAll
  <2>4. \A s \in Seq(Event) : GoodAll(s, reqs, psnOf) => GoodAll(Append(s, e), reqs', psnOf')
    BY <2>2, <2>3, <1>6, GoodMore
  <2>5. \A s \in Seq(Event) : HonestAll(s, reqs, psnOf, epsn, written)
                              => HonestAll(s, reqs', psnOf', epsn, written)
    <3> SUFFICES ASSUME NEW s \in Seq(Event), HonestAll(s, reqs, psnOf, epsn, written),
                        NEW a \in Range(s)
                 PROVE  Honest(a, reqs', psnOf', epsn, written)
      BY DEF HonestAll
    <3>1. a \in Event /\ Honest(a, reqs, psnOf, epsn, written)
      BY DEF HonestAll, Range
    <3> QED
      BY <3>1, <1>0, <1>1, <1>3, <1>5, HonestNew
  <2>6. fwd \in Seq(Event) /\ insq \in Seq(Event) /\ rtev \in Seq(Event) /\ back \in Seq(Event)
        /\ ackq \in Seq(Event) /\ readq \in Seq(Event) /\ bexh \in Seq(Event)
        /\ written \in Seq(WriteRec) /\ epsn \in Psn
    BY <1>0 DEF NetTypes, RtTypes, RspTypes
  <2>7. AtRequest(reqs', psnOf', next', epsn)
    BY <2>1, <1>0, <1>1, <1>3, <1>5, AtKept DEF Sound
  <2>8. Executed(reqs', psnOf', epsn, written, bexh)
    BY <2>1, <2>6, <1>0, <1>1, <1>3, <1>5, ExecutedNew DEF Sound
  <2>9. GoodAll(fwd', reqs', psnOf') /\ GoodAll(insq', reqs', psnOf') /\ GoodAll(rtev', reqs', psnOf')
    BY <2>1, <2>3, <2>4, <2>6, <1>2, <1>10 DEF Sound
  <2>10. /\ HonestAll(ackq, reqs', psnOf', epsn, written)
         /\ HonestAll(readq, reqs', psnOf', epsn, written)
         /\ HonestAll(back, reqs', psnOf', epsn, written)
    BY <2>1, <2>5, <2>6 DEF Sound
  <2> QED
    BY <2>7, <2>8, <2>9, <2>10, <1>2 DEF Sound
<1> QED
  BY <1>8, <1>9, <1>11, <1>12, <1>13, <1>14, <1>15, <1>16 DEF RoceInv, Types

LEMMA LocalRetransStep ==
  ASSUME RoceInv, LocalRetrans
  PROVE  RoceInv'
<1>0. TxTypes /\ RtTypes /\ TmTypes /\ RxTypes /\ RspTypes /\ NetTypes /\ ListInv /\ InPhase(reqs, psnOf, next)
  BY DEF RoceInv, Types
<1>1. /\ rtev # <<>> /\ fwd' = Append(fwd, Head(rtev)) /\ rtev' = Tail(rtev) /\ SetTimer(Head(rtev).op)
      /\ UNCHANGED <<reqs, next, psnOf, unack, arx, aexh, epsn, nakOk, bexh, bdma, ackq, readq, written>>
      /\ UNCHANGED <<back, faults, expired, late, insq, mtable, ptr, freeq, rt, miscut>>
  BY DEF LocalRetrans, txVars, rxVars, rspVars
<1>2. rtev \in Seq(Event) /\ fwd \in Seq(Event)
  BY <1>0 DEF RtTypes, NetTypes
<1>3. Head(rtev) \in Event /\ Head(rtev) \in Range(rtev) /\ rtev' \in Seq(Event) /\ Range(rtev') \subseteq Range(rtev)
  BY <1>1, <1>2, QueueHead
<1>4. TxTypes' /\ RxTypes' /\ RspTypes' /\ InPhase(reqs', psnOf', next')
  BY <1>0, <1>1 DEF TxTypes, RxTypes, RspTypes
<1>5. RtTypes'
  BY <1>0, <1>1, <1>3 DEF RtTypes
<1>6. TmTypes'
  BY <1>0, <1>1, TimerSet
<1>7. NetTypes'
  BY <1>0, <1>1, <1>2, <1>3, Appended DEF NetTypes
<1>8. ListInv'
  BY <1>0, <1>1, ListFrame
<1>9. ~miscut' => Sound'
  <2> SUFFICES ASSUME ~miscut' PROVE Sound'
    OBVIOUS
  <2>1. Sound
    BY <1>1 DEF RoceInv
  <2>2. Good(Head(rtev), reqs, psnOf)
    BY <2>1, <1>3 DEF Sound, GoodAll
  <2>3. GoodAll(fwd', reqs, psnOf)
    BY <2>1, <2>2, <1>1, <1>2, <1>3, GoodMore DEF Sound
  <2>4. GoodAll(rtev', reqs, psnOf)
    BY <2>1, <1>3, GoodFewer DEF Sound
  <2> QED
    BY <2>1, <2>3, <2>4, <1>1 DEF Sound
<1> QED
  BY <1>4, <1>5, <1>6, <1>7, <1>8, <1>9 DEF RoceInv, Types
-----------------------------------------------------------------------------
(* The retransmitter. *)

LEMMA EventCut ==
  ASSUME NEW p \in Event
  PROVE  Cut(p) \in Event
<1> DEFINE P == Psn \cup {-1}
           Q == 0 .. MaxReq
           q == Plus(p.psn, 1)
<1>1. Event = [op : OpSet, req : Q, off : Nat, len : Int, psn : P]
  BY DEF Event, OpSet
<1>2. p.psn \in Int
  BY DEF Event, Psn
<1>3. q \in P
  BY <1>2, PlusPsn
<1>4. p.off + 1 \in Nat /\ p.len - 1 \in Int
  BY <1>1
<1>5. Cut(p) = [p EXCEPT !.off = p.off + 1, !.len = p.len - 1, !.psn = q]
  BY DEF Cut
<1> HIDE DEF P, Q, q
<1>6. [p EXCEPT !.off = p.off + 1, !.len = p.len - 1, !.psn = q] \in Event
  BY <1>1, <1>3, <1>4
<1> QED
  BY <1>5, <1>6

LEMMA RetransUpdateStep ==
  ASSUME RoceInv, RetransUpdate
  PROVE  RoceInv'
<1>0. TxTypes /\ RtTypes /\ TmTypes /\ RxTypes /\ RspTypes /\ NetTypes /\ ListInv /\ InPhase(reqs, psnOf, next)
  BY DEF RoceInv, Types
<1>1. /\ UNCHANGED <<insq, rt, rtev, reqs, next, psnOf, timer, expired, late, unack, arx, aexh>>
      /\ UNCHANGED <<epsn, nakOk, bexh, bdma, ackq, readq, written, fwd, back, faults>>
  BY DEF RetransUpdate, txVars, tmVars, rxVars, rspVars, netVars
<1>2. TxTypes' /\ TmTypes' /\ RxTypes' /\ RspTypes' /\ NetTypes' /\ InPhase(reqs', psnOf', next')
  BY <1>0, <1>1 DEF TxTypes, TmTypes, RxTypes, RspTypes, NetTypes
<1>3. Sound => Sound'
  BY <1>1 DEF Sound
<1>4. mtable \in [Slot -> MetaEntry] /\ ptr \in PtrEntry /\ miscut \in BOOLEAN
  BY <1>0 DEF RtTypes
<1>5. PICK q : IsList(q, mtable, ptr, freeq) /\ (~miscut => GoodList(q, mtable, reqs, psnOf))
  BY <1>0 DEF ListInv
<1>6. CASE ~ptr.valid
  <2>1. UNCHANGED <<mtable, ptr, freeq, miscut>>
    BY <1>6 DEF RetransUpdate
  <2>2. RtTypes' /\ ListInv'
    BY <2>1, <1>0, <1>1, ListFrame DEF RtTypes
  <2> QED
    BY <2>1, <2>2, <1>2, <1>3 DEF RoceInv, Types
<1>7. CASE ptr.valid /\ Head(updq) \in {"RESP_FIRST", "RESP_MIDDLE"}
  <2> DEFINE h == ptr.head
             e == mtable[h].ev
             f == Cut(e)
  <2>1. /\ mtable' = [mtable EXCEPT ![h].ev = f]
        /\ miscut' = (miscut \/ e.op # "READ" \/ e.len <= 1)
        /\ UNCHANGED <<ptr, freeq>>
    BY <1>7 DEF RetransUpdate
  <2>2. h \in Slot /\ e \in Event /\ mtable[h] \in MetaEntry
    BY <1>4 DEF PtrEntry, MetaEntry
  <2>3. f \in Event
    BY <2>2, EventCut
  <2> HIDE DEF f, h
  <2>4. mtable' \in [Slot -> MetaEntry]
    BY <2>1, <2>2, <2>3, <1>4 DEF MetaEntry
  <2>5. \A i \in Slot : /\ mtable'[i].next = mtable[i].next /\ (mtable'[i].isTail <=> mtable[i].isTail)
                        /\ mtable'[i].ev = IF i = h THEN f ELSE mtable[i].ev
    BY <2>1, <2>2, <1>4 DEF MetaEntry
  <2>6. miscut' \in BOOLEAN /\ (~miscut' => ~miscut /\ e.op = "READ" /\ ~(e.len <= 1))
    BY <2>1, <1>4
  <2>7. RtTypes'
    BY <2>1, <2>4, <2>6, <1>0, <1>1 DEF RtTypes
  <2>8. \A i \in 1 .. Len(q) : q[i] \in Slot
    BY <1>5 DEF IsList
  <2>9. IsList(q, mtable', ptr', freeq')
    <3>1. \A i \in 1 .. Len(q) : mtable'[q[i]].next = mtable[q[i]].next
                                  /\ (mtable'[q[i]].isTail <=> mtable[q[i]].isTail)
      BY <2>5, <2>8
    <3>2. IsList(q, mtable', ptr, freeq)
      BY <3>1, <1>5, ListRelabelled
    <3> QED
      BY <3>2, <2>1
  <2>10. ~miscut' => GoodList(q, mtable', reqs', psnOf')
    <3> SUFFICES ASSUME ~miscut', NEW i \in 1 .. Len(q)
                 PROVE  Good(mtable'[q[i]].ev, reqs, psnOf)
      BY <1>1 DEF GoodList
    <3>1. Good(mtable[q[i]].ev, reqs, psnOf)
      BY <2>6, <1>5 DEF GoodList
    <3>2. CASE q[i] # h
      BY <3>1, <3>2, <2>5, <2>8
    <3>3. CASE q[i] = h
      <4>1. Good(e, reqs, psnOf) /\ e.op = "READ" /\ e.len > 1
        <5>1. e.len \in Int
          BY <2>2 DEF Event
        <5> QED
          BY <5>1, <3>1, <3>3, <2>6
      <4>2. reqs \in Seq(KindSet) /\ psnOf \in Seq(Psn) /\ next \in Psn
        BY <1>0 DEF TxTypes
      <4>3. Good(f, reqs, psnOf)
        BY <4>1, <4>2, <2>2, <1>0, GoodCut DEF f
      <4> QED
        BY <4>3, <3>3, <2>5, <2>8
    <3> QED
      BY <3>2, <3>3
  <2>11. ListInv'
    BY <2>9, <2>10 DEF ListInv
  <2>12. ~miscut' => Sound'
    BY <2>6, <1>3 DEF RoceInv
  <2> QED
    BY <2>7, <2>11, <2>12, <1>2 DEF RoceInv, Types
<1>8. CASE ptr.valid /\ Head(updq) \notin {"RESP_FIRST", "RESP_MIDDLE"}
  <2>1. /\ ptr' = [ptr EXCEPT !.head = mtable[ptr.head].next, !.valid = ~mtable[ptr.head].isTail]
        /\ freeq' = Append(freeq, ptr.head)
        /\ UNCHANGED <<mtable, miscut>>
    BY <1>8 DEF RetransUpdate, Release
  <2>2. ptr.head \in Slot /\ mtable[ptr.head].next \in Slot
    BY <1>4 DEF PtrEntry, MetaEntry
  <2>3. ptr' \in PtrEntry
    BY <2>1, <2>2, <1>4 DEF PtrEntry
  <2>4. RtTypes'
    BY <2>1, <2>3, <1>0, <1>1 DEF RtTypes
  <2>5. q # <<>> /\ IsList(Tail(q), mtable', ptr', freeq')
    BY <2>1, <1>4, <1>5, <1>8, ListPopped
  <2>6. ~miscut' => GoodList(Tail(q), mtable', reqs', psnOf')
    <3>1. q \in Seq(Slot)
      BY <1>5 DEF IsList
    <3>2. Len(q) \in Nat /\ Len(Tail(q)) = Len(q) - 1 /\ \A i \in 1 .. Len(q) - 1 : Tail(q)[i] = q[i + 1]
      BY <3>1, <2>5, Tailed
    <3>3. \A i \in 1 .. Len(q) - 1 : i + 1 \in 1 .. Len(q)
      BY <3>2
    <3> QED
      BY <3>2, <3>3, <2>1, <1>1, <1>5 DEF GoodList
  <2>7. ListInv'
    BY <2>5, <2>6 DEF ListInv
  <2>8. ~miscut' => Sound'
    BY <2>1, <1>3 DEF RoceInv
  <2> QED
    BY <2>4, <2>7, <2>8, <1>2 DEF RoceInv, Types
<1> QED
  BY <1>6, <1>7, <1>8

\* What the list holds are packets of requests.
LEMMA ChainGood ==
  ASSUME RtTypes, ListInv
  PROVE  /\ Chain \in Seq(Event)
         /\ ~miscut => GoodAll(Chain, reqs, psnOf)
<1>1. PICK q : IsList(q, mtable, ptr, freeq) /\ (~miscut => GoodList(q, mtable, reqs, psnOf))
  BY DEF ListInv
<1>2. /\ Chain \in Seq(Event) /\ Len(Chain) = Len(q)
      /\ \A i \in 1 .. Len(q) : Chain[i] = mtable[q[i]].ev
  BY <1>1, ChainIs DEF RtTypes
<1>3. DOMAIN Chain = 1 .. Len(q)
  BY <1>2
<1> QED
  BY <1>1, <1>2, <1>3 DEF GoodAll, GoodList, Range

\* Retransmissions add packets of the list to those to be sent.
LEMMA RetransRequested ==
  ASSUME RoceInv, NEW t \in Seq(Event), Range(t) \subseteq Range(Chain), rtev' = rtev \o t
  PROVE  /\ rtev' \in Seq(Event)
         /\ ~miscut => GoodAll(rtev', reqs, psnOf)
<1>1. rtev \in Seq(Event) /\ RtTypes /\ ListInv /\ (~miscut => Sound)
  BY DEF RoceInv, Types, RtTypes
<1>2. rtev' \in Seq(Event) /\ Range(rtev') \subseteq Range(rtev) \cup Range(t)
  BY <1>1, Joined
<1> QED
  BY <1>1, <1>2, ChainGood DEF GoodAll, Sound

LEMMA RetransNakStep ==
  ASSUME RoceInv, RetransNak
  PROVE  RoceInv'
<1>0. TxTypes /\ RtTypes /\ TmTypes /\ RxTypes /\ RspTypes /\ NetTypes /\ ListInv /\ InPhase(reqs, psnOf, next)
  BY DEF RoceInv, Types
<1>1. /\ UNCHANGED <<insq, mtable, ptr, freeq, miscut, reqs, next, psnOf, timer, expired, late, unack, arx, aexh>>
      /\ UNCHANGED <<epsn, nakOk, bexh, bdma, ackq, readq, written, fwd, back, faults>>
  BY DEF RetransNak, txVars, tmVars, rxVars, rspVars, netVars
<1>2. TxTypes' /\ TmTypes' /\ RxTypes' /\ RspTypes' /\ NetTypes' /\ InPhase(reqs', psnOf', next')
  BY <1>0, <1>1 DEF TxTypes, TmTypes, RxTypes, RspTypes, NetTypes
<1>3. ListInv'
  BY <1>0, <1>1, ListFrame
<1>4. rt' \in {"MAIN", "RETRANS_1"} /\ rtev' \in Seq(Event) /\ (~miscut => GoodAll(rtev', reqs, psnOf))
  <2> DEFINE hits == {i \in 1 .. Len(Chain) : Chain[i].psn = Head(nakq)}
             from == CHOOSE i \in hits : \A j \in hits : i <= j
  <2>1. rt \in {"MAIN", "RETRANS_1"} /\ rtev \in Seq(Event) /\ (~miscut => GoodAll(rtev, reqs, psnOf))
    BY <1>0 DEF RoceInv, RtTypes, Sound
  <2>2. CASE UNCHANGED rtev
    <3>1. rt' = rt \/ rt' = "RETRANS_1"
      BY <2>2 DEF RetransNak
    <3> QED
      BY <3>1, <2>1, <2>2
  <2>3. CASE hits # {} /\ rtev' = rtev \o SubSeq(Chain, from, Len(Chain)) /\ UNCHANGED rt
    <3>1. Chain \in Seq(Event) /\ Len(Chain) \in Nat
      BY <1>0, ChainGood
    <3>2. from \in hits
      <4>1. hits \subseteq Nat
        BY <3>1
      <4> HIDE DEF hits
      <4>2. \E i \in hits : \A j \in hits : i <= j
        BY <4>1, <2>3, LeastNat
      <4> QED
        BY <4>2
    <3>3. from \in 1 .. Len(Chain) + 1 /\ Len(Chain) \in 0 .. Len(Chain)
      BY <3>1, <3>2
    <3> HIDE DEF from
    <3>4. /\ SubSeq(Chain, from, Len(Chain)) \in Seq(Event)
          /\ Range(SubSeq(Chain, from, Len(Chain))) \subseteq Range(Chain)
      BY <3>1, <3>3, Part
    <3> QED
      BY <3>4, <2>1, <2>3, RetransRequested
  <2> QED
    BY <2>2, <2>3 DEF RetransNak
<1>5. RtTypes'
  BY <1>0, <1>1, <1>4 DEF RtTypes
<1>6. ~miscut' => Sound'
  BY <1>1, <1>4 DEF Sound, RoceInv
<1> QED
  BY <1>1, <1>2, <1>3, <1>5, <1>6 DEF RoceInv, Types

LEMMA RetransTimerStep ==
  ASSUME RoceInv, RetransTimer
  PROVE  RoceInv'
<1>0. TxTypes /\ RtTypes /\ TmTypes /\ RxTypes /\ RspTypes /\ NetTypes /\ ListInv /\ InPhase(reqs, psnOf, next)
  BY DEF RoceInv, Types
<1>1. /\ UNCHANGED <<insq, mtable, ptr, freeq, rt, miscut, reqs, next, psnOf, timer, late, unack, arx, aexh>>
      /\ UNCHANGED <<epsn, nakOk, bexh, bdma, ackq, readq, written, fwd, back, faults>>
      /\ expired' = FALSE /\ rtev' = rtev \o Chain
  BY DEF RetransTimer, txVars, tmVars, rxVars, rspVars, netVars
<1>2. TxTypes' /\ TmTypes' /\ RxTypes' /\ RspTypes' /\ NetTypes' /\ InPhase(reqs', psnOf', next')
  BY <1>0, <1>1 DEF TxTypes, TmTypes, RxTypes, RspTypes, NetTypes
<1>3. ListInv'
  BY <1>0, <1>1, ListFrame
<1>4. rtev' \in Seq(Event) /\ (~miscut => GoodAll(rtev', reqs, psnOf))
  BY <1>0, <1>1, ChainGood, RetransRequested
<1>5. RtTypes'
  BY <1>0, <1>1, <1>4 DEF RtTypes
<1>6. ~miscut' => Sound'
  BY <1>1, <1>4 DEF Sound, RoceInv
<1> QED
  BY <1>1, <1>2, <1>3, <1>5, <1>6 DEF RoceInv, Types

LEMMA EntryLinked ==
  ASSUME NEW m \in MetaEntry, NEW x \in Slot
  PROVE  LET b == [m EXCEPT !.next = x, !.isTail = FALSE]
         IN  b \in MetaEntry /\ b.ev = m.ev /\ b.next = x /\ ~b.isTail
  BY DEF MetaEntry

LEMMA OnePointer ==
  ASSUME NEW x \in Slot
  PROVE  LET p == [head |-> x, tail |-> x, valid |-> TRUE]
         IN  p \in PtrEntry /\ p.valid /\ p.tail = x /\ p.head = x
  BY DEF PtrEntry

\* The index from the free list is linked behind the tail and gets the request.
Linked(q, x, y, mt, mn, pn, fn) ==
  /\ mn \in [Slot -> MetaEntry] /\ pn \in PtrEntry /\ x \in Slot /\ mn[x].ev = y
  /\ \A i \in 1 .. Len(q) : mn[q[i]].ev = mt[q[i]].ev
  /\ IsList(Append(q, x), mn, pn, fn)

LEMMA InsertedList ==
  ASSUME RtTypes, RetransInsert, NEW q, IsList(q, mtable, ptr, freeq)
  PROVE  Linked(q, Head(freeq), Head(insq), mtable, mtable', ptr', freeq')
<1>1. insq # <<>> /\ freeq # <<>> /\ insq' = Tail(insq) /\ freeq' = Tail(freeq)
  BY DEF RetransInsert
<1>3. mtable \in [Slot -> MetaEntry] /\ ptr \in PtrEntry /\ insq \in Seq(Event)
  BY DEF RtTypes
<1>4. IsList(q, mtable, ptr, freeq)
  OBVIOUS
<1> DEFINE x == Head(freeq)
           y == Head(insq)
           e == [ev |-> y, next |-> 0, isTail |-> TRUE]
           l == Len(q)
<1>5. q \in Seq(Slot) /\ freeq \in Seq(Slot) /\ l \in Nat /\ (\A i \in 1 .. l : q[i] \in Slot)
  BY <1>4 DEF IsList
<1>6. x \in Slot /\ x = freeq[1] /\ 1 \in 1 .. Len(freeq)
  BY <1>1, <1>5, Tailed
<1>7. y \in Event /\ y \in Range(insq) /\ insq' \in Seq(Event) /\ Range(insq') \subseteq Range(insq)
  BY <1>1, <1>3, QueueHead
<1>8. 0 \in Slot
  BY RoceAssumption DEF Slot
<1>9. e \in MetaEntry
  BY <1>7, <1>8 DEF MetaEntry
<1>10. \A i \in 1 .. l : q[i] # x
  BY <1>4, <1>6 DEF IsList
<1>11. /\ ptr.valid => /\ mtable' = [Link(x) EXCEPT ![x] = e]
                       /\ ptr' = [ptr EXCEPT !.tail = x]
       /\ ~ptr.valid => /\ mtable' = [mtable EXCEPT ![x] = e]
                        /\ ptr' = [head |-> x, tail |-> x, valid |-> TRUE]
  BY DEF RetransInsert
<1> HIDE DEF x, y
<1>12. /\ mtable' \in [Slot -> MetaEntry] /\ ptr' \in PtrEntry /\ mtable'[x] = e
       /\ ptr'.valid /\ ptr'.tail = x /\ ptr'.head = IF l = 0 THEN x ELSE ptr.head
       /\ \A i \in 1 .. l : i # l => mtable'[q[i]] = mtable[q[i]]
       /\ \A i \in 1 .. l : mtable'[q[i]].ev = mtable[q[i]].ev
       /\ l > 0 => mtable'[q[l]].next = x /\ ~mtable'[q[l]].isTail
  <2>1. CASE ptr.valid
    <3>1. l > 0 /\ l # 0 /\ ptr.tail = q[l] /\ l \in 1 .. l
      BY <2>1, <1>4, <1>5 DEF IsList
    <3>2. q[l] \in Slot /\ q[l] # x
      BY <3>1, <1>5, <1>10
    <3> DEFINE b == [mtable[q[l]] EXCEPT !.next = x, !.isTail = FALSE]
    <3>3. Link(x) = [mtable EXCEPT ![q[l]] = b]
      <4>1. Link(x) \in [Slot -> MetaEntry]
        BY <3>1, <3>2, <1>3, <1>6 DEF Link, MetaEntry
      <4>2. \A i \in Slot : Link(x)[i] = IF i = q[l] THEN b ELSE mtable[i]
        BY <3>1, <3>2, <1>3, <1>6 DEF Link, MetaEntry
      <4> QED
        BY <4>1, <4>2, <1>3
    <3>4. b \in MetaEntry /\ b.ev = mtable[q[l]].ev /\ b.next = x /\ ~b.isTail
      <4>1. mtable[q[l]] \in MetaEntry
        BY <3>2, <1>3
      <4> QED
        BY <4>1, <1>6, EntryLinked
    <3> HIDE DEF b, e
    <3>5. mtable' = [[mtable EXCEPT ![q[l]] = b] EXCEPT ![x] = e]
      BY <3>3, <2>1, <1>11
    <3>6. mtable' \in [Slot -> MetaEntry] /\ mtable'[x] = e /\ mtable'[q[l]] = b
          /\ \A s \in Slot : s # x /\ s # q[l] => mtable'[s] = mtable[s]
      BY <3>2, <3>4, <3>5, <1>3, <1>6, <1>9
    <3>7. ptr' \in PtrEntry /\ ptr'.valid /\ ptr'.tail = x /\ ptr'.head = ptr.head
      BY <2>1, <1>3, <1>6, <1>11 DEF PtrEntry
    <3>8. \A i \in 1 .. l : i # l => q[i] # q[l]
      BY <3>1, <1>4 DEF IsList
    <3>9. \A i \in 1 .. l : i # l => mtable'[q[i]] = mtable[q[i]]
      BY <3>6, <3>8, <1>5, <1>10
    <3> QED
      BY <3>1, <3>4, <3>6, <3>7, <3>9
  <2>2. CASE ~ptr.valid
    <3>1. l = 0 /\ ~(l > 0) /\ \A i : i \notin 1 .. l
      <4>1. ~(l > 0)
        BY <2>2, <1>4 DEF IsList
      <4> QED
        BY <4>1, <1>5
    <3> HIDE DEF e
    <3>2. mtable' \in [Slot -> MetaEntry] /\ mtable'[x] = e
      BY <2>2, <1>3, <1>6, <1>9, <1>11
    <3>3. ptr' \in PtrEntry /\ ptr'.valid /\ ptr'.tail = x /\ ptr'.head = x
      <4>1. ptr' = [head |-> x, tail |-> x, valid |-> TRUE]
        BY <2>2, <1>11
      <4> QED
        BY <4>1, <1>6, OnePointer
    <3> QED
      BY <3>1, <3>2, <3>3
  <2> QED
    BY <2>1, <2>2
<1>14. IsList(Append(q, x), mtable', ptr', freeq')
  <2>1. mtable'[x].isTail
    BY <1>12
  <2> QED
    BY <2>1, <1>1, <1>4, <1>12, ListGrown DEF x
<1> QED
  BY <1>6, <1>12, <1>14 DEF Linked, x, y

LEMMA RetransInsertStep ==
  ASSUME RoceInv, RetransInsert
  PROVE  RoceInv'
<1>0. TxTypes /\ RtTypes /\ TmTypes /\ RxTypes /\ RspTypes /\ NetTypes /\ ListInv /\ InPhase(reqs, psnOf, next)
  BY DEF RoceInv, Types
<1>1. /\ UNCHANGED <<rt, rtev, miscut, reqs, next, psnOf, timer, expired, late, unack, arx, aexh>>
      /\ UNCHANGED <<epsn, nakOk, bexh, bdma, ackq, readq, written, fwd, back, faults>>
      /\ insq # <<>> /\ freeq # <<>> /\ insq' = Tail(insq) /\ freeq' = Tail(freeq)
  BY DEF RetransInsert, txVars, tmVars, rxVars, rspVars, netVars
<1>2. TxTypes' /\ TmTypes' /\ RxTypes' /\ RspTypes' /\ NetTypes' /\ InPhase(reqs', psnOf', next')
  BY <1>0, <1>1 DEF TxTypes, TmTypes, RxTypes, RspTypes, NetTypes
<1>3. mtable \in [Slot -> MetaEntry] /\ ptr \in PtrEntry /\ insq \in Seq(Event)
  BY <1>0 DEF RtTypes
<1>4. PICK q : IsList(q, mtable, ptr, freeq) /\ (~miscut => GoodList(q, mtable, reqs, psnOf))
  BY <1>0 DEF ListInv
<1> DEFINE x == Head(freeq)
           y == Head(insq)
           l == Len(q)
<1>5. q \in Seq(Slot) /\ l \in Nat
  BY <1>4 DEF IsList
<1>7. y \in Event /\ y \in Range(insq) /\ insq' \in Seq(Event) /\ Range(insq') \subseteq Range(insq)
  BY <1>1, <1>3, QueueHead
<1>12. Linked(q, x, y, mtable, mtable', ptr', freeq')
  BY <1>0, <1>4, InsertedList
<1> HIDE DEF x, y
<1>6. x \in Slot /\ mtable'[x].ev = y /\ \A i \in 1 .. l : mtable'[q[i]].ev = mtable[q[i]].ev
  BY <1>12 DEF Linked
<1>13. RtTypes'
  BY <1>0, <1>1, <1>7, <1>12 DEF RtTypes, Linked
<1>14. IsList(Append(q, x), mtable', ptr', freeq')
  BY <1>12 DEF Linked
<1>15. ~miscut' => GoodList(Append(q, x), mtable', reqs', psnOf')
  <2> SUFFICES ASSUME ~miscut' PROVE GoodList(Append(q, x), mtable', reqs, psnOf)
    BY <1>1
  <2>1. Len(Append(q, x)) = l + 1 /\ Append(q, x)[l + 1] = x /\ \A i \in 1 .. l : Append(q, x)[i] = q[i]
    BY <1>5, <1>6, Appended
  <2>2. GoodList(q, mtable, reqs, psnOf) /\ GoodAll(insq, reqs, psnOf)
    BY <1>1, <1>4 DEF RoceInv, Sound
  <2>3. Good(mtable'[x].ev, reqs, psnOf)
    BY <2>2, <1>6, <1>7 DEF GoodAll
  <2>4. \A i \in 1 .. l + 1 : i \in 1 .. l \/ i = l + 1
    BY <1>5
  <2>5. \A i \in 1 .. l : Good(mtable'[q[i]].ev, reqs, psnOf)
    BY <2>2, <1>6 DEF GoodList
  <2> QED
    BY <2>1, <2>3, <2>4, <2>5 DEF GoodList
<1>16. ListInv'
  BY <1>14, <1>15 DEF ListInv
<1>17. ~miscut' => Sound'
  BY <1>1, <1>7, GoodFewer DEF Sound, RoceInv
<1> QED
  BY <1>1, <1>2, <1>13, <1>16, <1>17 DEF RoceInv, Types

-----------------------------------------------------------------------------
(* The requester receives: nothing of what the responder says is changed, *)
(* only what is still to be read of it. *)

LEMMA ReceivesOnly ==
  ASSUME RoceInv, TmTypes', RxTypes',
         UNCHANGED <<txVars, rspVars, insq, mtable, ptr, freeq, rt, rtev, miscut, fwd, faults>>,
         back' \in Seq(Event), Range(back') \subseteq Range(back)
  PROVE  RoceInv'
<1>0. TxTypes /\ RtTypes /\ TmTypes /\ RxTypes /\ RspTypes /\ NetTypes /\ ListInv /\ InPhase(reqs, psnOf, next)
  BY DEF RoceInv, Types
<1>1. /\ UNCHANGED <<reqs, next, psnOf, epsn, nakOk, bexh, bdma, ackq, readq, written>>
      /\ UNCHANGED <<insq, mtable, ptr, freeq, rt, rtev, miscut, fwd, faults>>
  BY DEF txVars, rspVars
<1>2. TxTypes' /\ RtTypes' /\ RspTypes' /\ NetTypes' /\ InPhase(reqs', psnOf', next')
  BY <1>0, <1>1 DEF TxTypes, RtTypes, RspTypes, NetTypes
<1>3. ListInv'
  BY <1>0, <1>1, ListFrame
<1>4. ~miscut' => Sound'
  BY <1>1, HonestFewer DEF Sound, RoceInv
<1> QED
  BY <1>2, <1>3, <1>4 DEF RoceInv, Types

LEMMA TimerExpiresStep ==
  ASSUME RoceInv, TimerExpires
  PROVE  RoceInv'
<1>0. TmTypes /\ RxTypes /\ NetTypes
  BY DEF RoceInv, Types
<1>1. UNCHANGED <<txVars, rtVars, rxVars, rspVars, netVars>>
  BY DEF TimerExpires
<1>2. TmTypes'
  <2>1. MaxRetries \in Nat /\ MaxLate \in Nat
    BY RoceAssumption
  <2>2. timer.retries \in 0 .. MaxRetries /\ late \in 0 .. MaxLate
    BY <1>0 DEF TmTypes
  <2>3. late' \in 0 .. MaxLate
    BY <2>1, <2>2 DEF TimerExpires
  <2>4. (IF timer.retries < MaxRetries THEN timer.retries + 1 ELSE timer.retries) \in 0 .. MaxRetries
    BY <2>1, <2>2
  <2>5. timer' \in [active : BOOLEAN, retries : 0 .. MaxRetries] /\ expired' \in BOOLEAN
    BY <2>4 DEF TimerExpires
  <2> QED
    BY <2>3, <2>5 DEF TmTypes
<1>3. RxTypes'
  BY <1>0, <1>1 DEF RxTypes, rxVars
<1> QED
  BY <1>0, <1>1, <1>2, <1>3, ReceivesOnly DEF rtVars, netVars, NetTypes

LEMMA RxLoadStep ==
  ASSUME RoceInv, RxLoad
  PROVE  RoceInv'
<1>0. TmTypes /\ RxTypes /\ NetTypes /\ TxTypes
  BY DEF RoceInv, Types
<1>1. /\ UNCHANGED <<txVars, rtVars, tmVars, rspVars, fwd, faults, unack, aexh>>
      /\ back # <<>> /\ back' = Tail(back)
      /\ arx' = [pkt |-> Head(back), epsn |-> unack, maxf |-> Plus(next, -1)]
  BY DEF RxLoad
<1>2. Head(back) \in Event /\ back' \in Seq(Event) /\ Range(back') \subseteq Range(back)
  BY <1>0, <1>1, QueueHead DEF NetTypes
<1>3. RxTypes'
  <2>1. next \in Int /\ -1 \in Int
    BY <1>0, Modulus DEF TxTypes, Psn
  <2>2. Plus(next, -1) \in Psn
    BY <2>1, PlusPsn
  <2>3. arx' \in Loaded
    BY <2>2, <1>0, <1>1, <1>2 DEF Loaded, RxTypes
  <2> QED
    BY <2>3, <1>0, <1>1 DEF RxTypes
<1>4. TmTypes'
  BY <1>0, <1>1 DEF TmTypes, tmVars
<1> QED
  BY <1>1, <1>2, <1>3, <1>4, ReceivesOnly DEF rtVars

LEMMA RxAcceptStep ==
  ASSUME RoceInv, RxAccept
  PROVE  RoceInv'
<1>0. TmTypes /\ RxTypes /\ NetTypes
  BY DEF RoceInv, Types
<1> DEFINE p == arx.pkt
<1>1. /\ UNCHANGED <<txVars, rspVars, netVars, insq, mtable, ptr, freeq, rt, rtev, miscut, expired, late>>
      /\ arx # None /\ arx' = None
      /\ aexh' = aexh \/ aexh' = Append(aexh, p)
      /\ unack' = unack \/ unack' = Plus(p.psn, 1)
      /\ timer' = timer \/ timer' = [active |-> timer.active /\ p.psn # arx.maxf, retries |-> 0]
  BY DEF RxAccept
<1>2. p \in Event
  BY <1>0, <1>1 DEF RxTypes, Loaded
<1>3. Plus(p.psn, 1) \in Psn
  <2>1. p.psn \in Int /\ 1 \in Int
    BY <1>2, Modulus DEF Event, Psn
  <2> QED
    BY <2>1, PlusPsn
<1>4. Append(aexh, p) \in Seq(Event)
  BY <1>0, <1>2, Appended DEF RxTypes
<1> HIDE DEF p
<1>5. RxTypes'
  BY <1>0, <1>1, <1>3, <1>4 DEF RxTypes
<1>6. TmTypes'
  <2>1. 0 \in 0 .. MaxRetries
    BY RoceAssumption
  <2>2. [active |-> timer.active /\ p.psn # arx.maxf, retries |-> 0] \in [active : BOOLEAN, retries : 0 .. MaxRetries]
    BY <2>1
  <2>3. timer' \in [active : BOOLEAN, retries : 0 .. MaxRetries]
    BY <2>2, <1>0, <1>1 DEF TmTypes
  <2> QED
    BY <2>3, <1>0, <1>1 DEF TmTypes
<1> QED
  BY <1>0, <1>1, <1>5, <1>6, ReceivesOnly DEF netVars, NetTypes

LEMMA RxDropStep ==
  ASSUME RoceInv, RxDrop
  PROVE  RoceInv'
<1>0. TmTypes /\ RxTypes /\ NetTypes
  BY DEF RoceInv, Types
<1>1. UNCHANGED <<unack, aexh, txVars, rtVars, tmVars, rspVars, netVars>> /\ arx' = None
  BY DEF RxDrop
<1>2. TmTypes' /\ RxTypes'
  BY <1>0, <1>1 DEF TmTypes, RxTypes, tmVars
<1> QED
  BY <1>0, <1>1, <1>2, ReceivesOnly DEF rtVars, netVars, NetTypes

LEMMA RxExhStep ==
  ASSUME RoceInv, RxExh
  PROVE  RoceInv'
<1>0. TmTypes /\ RxTypes /\ NetTypes
  BY DEF RoceInv, Types
<1>1. /\ UNCHANGED <<unack, arx, insq, mtable, ptr, freeq, rt, rtev, miscut, txVars, tmVars, rspVars, netVars>>
      /\ aexh # <<>> /\ aexh' = Tail(aexh)
  BY DEF RxExh
<1>2. aexh' \in Seq(Event)
  BY <1>0, <1>1, QueueHead DEF RxTypes
<1>3. TmTypes' /\ RxTypes'
  BY <1>0, <1>1, <1>2 DEF TmTypes, RxTypes, tmVars
<1> QED
  BY <1>0, <1>1, <1>3, ReceivesOnly DEF netVars, NetTypes

-----------------------------------------------------------------------------
(* The responder. *)

\* What the responder has made of the packets.
Answered ==
  /\ AtRequest(reqs, psnOf, next, epsn)
  /\ Executed(reqs, psnOf, epsn, written, bexh)
  /\ HonestAll(ackq, reqs, psnOf, epsn, written)
  /\ HonestAll(readq, reqs, psnOf, epsn, written)
  /\ HonestAll(back, reqs, psnOf, epsn, written)

LEMMA RespondsOnly ==
  ASSUME RoceInv, RspTypes', UNCHANGED <<txVars, rtVars, tmVars, rxVars>>,
         fwd' \in Seq(Event), Range(fwd') \subseteq Range(fwd), back' \in Seq(Event), faults' \in 0 .. MaxFaults,
         Sound => Answered'
  PROVE  RoceInv'
<1>0. TxTypes /\ RtTypes /\ TmTypes /\ RxTypes /\ ListInv /\ InPhase(reqs, psnOf, next)
  BY DEF RoceInv, Types
<1>1. /\ UNCHANGED <<reqs, next, psnOf, insq, mtable, ptr, freeq, rt, rtev, miscut>>
      /\ UNCHANGED <<timer, expired, late, unack, arx, aexh>>
  BY DEF txVars, rtVars, tmVars, rxVars
<1>2. TxTypes' /\ RtTypes' /\ TmTypes' /\ RxTypes' /\ NetTypes' /\ InPhase(reqs', psnOf', next')
  BY <1>0, <1>1 DEF TxTypes, RtTypes, TmTypes, RxTypes, NetTypes
<1>3. ListInv'
  BY <1>0, <1>1, ListFrame
<1>4. ~miscut' => Sound'
  BY <1>1, GoodFewer DEF Sound, Answered, RoceInv
<1> QED
  BY <1>2, <1>3, <1>4 DEF RoceInv, Types

LEMMA HonestAllOn ==
  ASSUME NEW s \in Seq(Event), NEW R, NEW S, NEW ep \in Psn, NEW ep1 \in Psn,
         Distance(ep) <= Distance(ep1), NEW W, HonestAll(s, R, S, ep, W)
  PROVE  HonestAll(s, R, S, ep1, W)
<1>1. \A a \in Range(s) : a \in Event
  BY DEF Range
<1> QED
  BY <1>1, HonestOn DEF HonestAll

LEMMA HonestAllMore ==
  ASSUME NEW s, NEW R, NEW S, NEW ep, NEW W \in Seq(WriteRec), NEW w \in WriteRec,
         HonestAll(s, R, S, ep, W)
  PROVE  HonestAll(s, R, S, ep, Append(W, w))
  BY HonestMore DEF HonestAll

LEMMA RespExpectedStep ==
  ASSUME RoceInv, RespExpected
  PROVE  RoceInv'
<1>0. TxTypes /\ RspTypes /\ NetTypes /\ InPhase(reqs, psnOf, next)
  BY DEF RoceInv, Types
<1> DEFINE e == Head(fwd)
<1>1. /\ UNCHANGED <<bdma, ackq, readq, written, txVars, rtVars, tmVars, rxVars, back, faults>>
      /\ fwd # <<>> /\ e.psn = epsn /\ bexh' = Append(bexh, e) /\ epsn' = Plus(epsn, NumPkg(e))
      /\ nakOk' = TRUE /\ fwd' = Tail(fwd)
  BY DEF RespExpected
<1>2. e \in Event /\ e \in Range(fwd) /\ fwd' \in Seq(Event) /\ Range(fwd') \subseteq Range(fwd)
  BY <1>0, <1>1, QueueHead DEF NetTypes
<1> HIDE DEF e
<1>3. epsn \in Psn /\ bexh \in Seq(Event) /\ written \in Seq(WriteRec) /\ reqs \in Seq(KindSet)
      /\ psnOf \in Seq(Psn) /\ next \in Psn /\ ackq \in Seq(Event) /\ readq \in Seq(Event) /\ back \in Seq(Event)
  BY <1>0 DEF RspTypes, TxTypes, NetTypes
<1>4. epsn' \in Psn
  <2>1. epsn \in Int /\ NumPkg(e) \in Int
    BY <1>2, <1>3, Modulus DEF NumPkg, Event, Psn
  <2> QED
    BY <2>1, <1>1, PlusPsn
<1>5. RspTypes'
  BY <1>0, <1>1, <1>2, <1>3, <1>4, Appended DEF RspTypes
<1>6. Sound => Answered'
  <2> SUFFICES ASSUME Sound PROVE Answered'
    OBVIOUS
  <2>1. Good(e, reqs, psnOf) /\ AtRequest(reqs, psnOf, next, epsn)
    BY <1>2 DEF Sound, GoodAll
  <2>2. epsn = psnOf[e.req] /\ Distance(epsn') = Distance(epsn) + Pkgs(e.op) /\ AtRequest(reqs, psnOf, next, epsn')
    BY <2>1, <1>0, <1>1, <1>3, ExpectedIs
  <2>3. Pkgs(e.op) \in Nat /\ Pkgs(e.op) >= 1 /\ Distance(epsn) \in Nat /\ Distance(epsn') \in Nat
    BY <1>3, <1>4, PkgsIs, DistanceIs
  <2>4. Distance(epsn) <= Distance(epsn') /\ Distance(epsn) < Distance(epsn')
    BY <2>2, <2>3
  <2>5. e.req \in 1 .. Len(reqs) /\ e.op = reqs[e.req]
    BY <2>1 DEF Good
  <2>6. \A k \in 1 .. Len(reqs) : reqs[k] # "READ" /\ Distance(psnOf[k]) < Distance(epsn') =>
           Distance(psnOf[k]) < Distance(epsn) \/ k = e.req
    <3> SUFFICES ASSUME NEW k \in 1 .. Len(reqs), Distance(psnOf[k]) < Distance(epsn'), k # e.req
                 PROVE  Distance(psnOf[k]) < Distance(epsn)
      OBVIOUS
    <3>1. /\ \A i, j \in 1 .. Len(reqs) : i < j => Distance(psnOf[i]) + Pkgs(reqs[i]) <= Distance(psnOf[j])
          /\ Len(reqs) \in Nat
      BY <1>0, <1>3 DEF InPhase
    <3>2. Distance(psnOf[k]) \in Nat /\ \A i, j \in 1 .. Len(reqs) : i < j => Distance(psnOf[i]) < Distance(psnOf[j])
      BY <1>0, <1>3, Starts
    <3>3. k \in Nat /\ e.req \in Nat
      BY <2>5, <3>1
    <3>4. CASE k < e.req
      BY <3>2, <3>4, <2>2, <2>5
    <3>5. CASE e.req < k
      <4>1. Distance(epsn) + Pkgs(e.op) <= Distance(psnOf[k])
        BY <3>1, <3>5, <2>2, <2>5
      <4> QED
        BY <4>1, <3>2, <2>2, <2>3
    <3> QED
      BY <3>3, <3>4, <3>5
  <2>7. Executed(reqs, psnOf, epsn, written, bexh)
    BY DEF Sound
  <2>8. Distance(psnOf[e.req]) <= Distance(epsn) /\ Distance(psnOf[e.req]) < Distance(epsn')
        /\ Distance(psnOf[e.req]) = Distance(epsn)
    BY <2>2, <2>3, <2>4
  <2>9. Executed(reqs, psnOf, epsn', written, Append(bexh, e))
    BY <2>1, <2>4, <2>6, <2>7, <2>8, <1>0, <1>2, <1>3, <1>4, ExecutedJoin
  <2>10. /\ HonestAll(ackq, reqs, psnOf, epsn', written)
         /\ HonestAll(readq, reqs, psnOf, epsn', written)
         /\ HonestAll(back, reqs, psnOf, epsn', written)
    BY <2>4, <1>3, <1>4, HonestAllOn DEF Sound
  <2> QED
    BY <2>2, <2>9, <2>10, <1>1 DEF Answered, txVars
<1> QED
  BY <1>0, <1>1, <1>2, <1>3, <1>5, <1>6, RespondsOnly DEF NetTypes

LEMMA AnswerIs ==
  ASSUME NEW o \in OpSet, NEW p \in Psn \cup {-1}
  PROVE  Answer(o, p) \in Event /\ Answer(o, p).op = o /\ Answer(o, p).psn = p
<1> DEFINE P == Psn \cup {-1}
<1>1. 0 \in 0 .. MaxReq /\ 0 \in Nat /\ 0 \in Int /\ -1 \in P /\ "NONE" \in OpSet
  BY RoceAssumption DEF OpSet
<1>2. Event = [op : OpSet, req : 0 .. MaxReq, off : Nat, len : Int, psn : P]
  BY DEF Event, OpSet
<1> HIDE DEF P
<1>3. \A n \in [op : OpSet, req : 0 .. MaxReq, off : Nat, len : Int, psn : P] :
        LET a == [n EXCEPT !.op = o, !.psn = p]
        IN  p \in P => /\ a \in [op : OpSet, req : 0 .. MaxReq, off : Nat, len : Int, psn : P]
                      /\ a.op = o /\ a.psn = p
  OBVIOUS
<1>4. None \in [op : OpSet, req : 0 .. MaxReq, off : Nat, len : Int, psn : P]
  BY <1>1 DEF None
<1>5. p \in P
  BY DEF P
<1> QED
  BY <1>2, <1>3, <1>4, <1>5 DEF Answer

LEMMA AckHonest ==
  ASSUME NEW R, NEW S, NEW ep, NEW W, NEW a, a.op = "ACK", a.psn \in Psn, Distance(a.psn) < Distance(ep)
  PROVE  Honest(a, R, S, ep, W)
  BY DEF Honest

LEMMA RespDuplicateStep ==
  ASSUME RoceInv, RespDuplicate
  PROVE  RoceInv'
<1>0. TxTypes /\ RspTypes /\ NetTypes /\ InPhase(reqs, psnOf, next)
  BY DEF RoceInv, Types
<1> DEFINE e == Head(fwd)
           a == Answer("ACK", e.psn)
<1>1. /\ UNCHANGED <<epsn, nakOk, bdma, readq, written, txVars, rtVars, tmVars, rxVars, back, faults>>
      /\ fwd # <<>> /\ IsDuplicate(e.psn) /\ fwd' = Tail(fwd)
      /\ \/ e.op = "READ" /\ bexh' = Append(bexh, e) /\ ackq' = ackq
         \/ bexh' = bexh /\ ackq' = Append(ackq, a)
         \/ bexh' = bexh /\ ackq' = ackq
  BY DEF RespDuplicate, Reexecuted
<1>2. e \in Event /\ e \in Range(fwd) /\ fwd' \in Seq(Event) /\ Range(fwd') \subseteq Range(fwd)
  BY <1>0, <1>1, QueueHead DEF NetTypes
<1>3. a \in Event /\ a.op = "ACK" /\ a.psn = e.psn
  <2>1. e.psn \in Psn \cup {-1}
    BY <1>2 DEF Event
  <2> QED
    BY <2>1, AnswerIs DEF OpSet
<1> HIDE DEF e, a
<1>4. epsn \in Psn /\ bexh \in Seq(Event) /\ written \in Seq(WriteRec) /\ reqs \in Seq(KindSet)
      /\ psnOf \in Seq(Psn) /\ next \in Psn /\ ackq \in Seq(Event) /\ readq \in Seq(Event) /\ back \in Seq(Event)
  BY <1>0 DEF RspTypes, TxTypes, NetTypes
<1>5. RspTypes'
  <2>1. Append(bexh, e) \in Seq(Event) /\ Append(ackq, a) \in Seq(Event)
    BY <1>2, <1>3, <1>4, Appended
  <2> QED
    BY <2>1, <1>0, <1>1, <1>4 DEF RspTypes
<1>6. Sound => Answered'
  <2> SUFFICES ASSUME Sound PROVE Answered'
    OBVIOUS
  <2>1. Good(e, reqs, psnOf)
    BY <1>2 DEF Sound, GoodAll
  <2>2. e.req \in 1 .. Len(reqs) /\ e.psn \in Psn /\ e.off \in Nat
        /\ Distance(e.psn) = Distance(psnOf[e.req]) + e.off
    BY <2>1, PkgsIs DEF Good
  <2>3. Distance(e.psn) < Distance(epsn)
    BY <2>2, <1>1, <1>4, DuplicateBefore
  <2>4. Distance(psnOf[e.req]) \in Nat
    BY <2>2, <1>0, <1>4, Starts
  <2>5. Distance(epsn) \in Nat /\ Distance(psnOf[e.req]) < Distance(epsn) /\ Distance(psnOf[e.req]) <= Distance(epsn)
        /\ Distance(epsn) <= Distance(epsn)
    BY <2>2, <2>3, <2>4, <1>4, DistanceIs
  <2>6. Executed(reqs, psnOf, epsn, written, bexh)
    BY DEF Sound
  <2>7. e.op = "READ" => Executed(reqs, psnOf, epsn, written, Append(bexh, e))
    BY <2>1, <2>5, <2>6, <1>0, <1>2, <1>4, ExecutedJoin
  <2>8. Executed(reqs, psnOf, epsn, written, bexh')
    BY <2>6, <2>7, <1>1
  <2>9. Honest(a, reqs, psnOf, epsn, written)
    BY <2>2, <2>3, <1>3, AckHonest
  <2>10. HonestAll(Append(ackq, a), reqs, psnOf, epsn, written)
    BY <2>9, <1>3, <1>4, HonestOneMore DEF Sound
  <2>11. HonestAll(ackq', reqs, psnOf, epsn, written)
    BY <2>10, <1>1 DEF Sound
  <2> QED
    BY <2>8, <2>11, <1>1 DEF Answered, Sound, txVars
<1> QED
  BY <1>0, <1>1, <1>2, <1>4, <1>5, <1>6, RespondsOnly DEF NetTypes

LEMMA RespInvalidStep ==
  ASSUME RoceInv, RespInvalid
  PROVE  RoceInv'
<1>0. TxTypes /\ RspTypes /\ NetTypes /\ InPhase(reqs, psnOf, next)
  BY DEF RoceInv, Types
<1> DEFINE e == Head(fwd)
           a == Answer("NAK", epsn)
<1>1. /\ UNCHANGED <<epsn, bexh, bdma, readq, written, txVars, rtVars, tmVars, rxVars, back, faults>>
      /\ fwd # <<>> /\ e.psn # epsn /\ ~IsDuplicate(e.psn) /\ fwd' = Tail(fwd)
      /\ ackq' = ackq \/ ackq' = Append(ackq, a)
      /\ nakOk' = FALSE
  BY DEF RespInvalid, NakPsn
<1>2. e \in Event /\ e \in Range(fwd) /\ fwd' \in Seq(Event) /\ Range(fwd') \subseteq Range(fwd)
  BY <1>0, <1>1, QueueHead DEF NetTypes
<1>3. a \in Event /\ a.op = "NAK" /\ a.psn = epsn
  BY <1>0, AnswerIs DEF OpSet, RspTypes
<1> HIDE DEF e, a
<1>4. epsn \in Psn /\ bexh \in Seq(Event) /\ written \in Seq(WriteRec) /\ reqs \in Seq(KindSet)
      /\ psnOf \in Seq(Psn) /\ next \in Psn /\ ackq \in Seq(Event) /\ readq \in Seq(Event) /\ back \in Seq(Event)
  BY <1>0 DEF RspTypes, TxTypes, NetTypes
<1>5. RspTypes'
  <2>1. Append(ackq, a) \in Seq(Event)
    BY <1>3, <1>4, Appended
  <2> QED
    BY <2>1, <1>0, <1>1, <1>4 DEF RspTypes
<1>6. Sound => Answered'
  <2> SUFFICES ASSUME Sound PROVE Answered'
    OBVIOUS
  <2>1. Good(e, reqs, psnOf) /\ AtRequest(reqs, psnOf, next, epsn)
    BY <1>2 DEF Sound, GoodAll
  <2>2. /\ e.req \in 1 .. Len(reqs) /\ e.psn \in Psn /\ e.op = reqs[e.req]
        /\ e.off \in 0 .. Pkgs(e.op) - 1
        /\ Distance(e.psn) = Distance(psnOf[e.req]) + e.off
    BY <2>1 DEF Good
  <2>3. Distance(epsn) < Distance(e.psn)
    BY <2>2, <1>1, <1>4, OtherwiseAfter
  <2>4. Distance(psnOf[e.req]) \in Nat /\ Distance(next) \in Nat
        /\ Distance(psnOf[e.req]) + Pkgs(reqs[e.req]) <= Distance(next)
    BY <2>2, <1>0, <1>4, Starts
  <2>5. Distance(epsn) \in Nat /\ Pkgs(e.op) \in Nat
    BY <1>4, DistanceIs, PkgsIs
  <2>6. Distance(epsn) # Distance(next)
    BY <2>2, <2>3, <2>4, <2>5
  <2>7. \E k \in 1 .. Len(reqs) : epsn = psnOf[k]
    BY <2>1, <2>6 DEF AtRequest
  <2>8. Honest(a, reqs, psnOf, epsn, written)
    BY <2>5, <2>7, <1>3 DEF Honest
  <2>9. HonestAll(Append(ackq, a), reqs, psnOf, epsn, written)
    BY <2>8, <1>3, <1>4, HonestOneMore DEF Sound
  <2>10. HonestAll(ackq', reqs, psnOf, epsn, written)
    BY <2>9, <1>1 DEF Sound
  <2> QED
    BY <2>10, <1>1 DEF Answered, Sound, txVars
<1> QED
  BY <1>0, <1>1, <1>2, <1>4, <1>5, <1>6, RespondsOnly DEF NetTypes

LEMMA RespExhStep ==
  ASSUME RoceInv, RespExh
  PROVE  RoceInv'
<1>0. TxTypes /\ RspTypes /\ NetTypes /\ InPhase(reqs, psnOf, next)
  BY DEF RoceInv, Types
<1> DEFINE p == Head(bexh)
           at == IF p.op = "LAST" THEN bdma ELSE p.req
           w == [at |-> at, data |-> p.req]
           a == Answer("ACK", p.psn)
<1>1. /\ UNCHANGED <<epsn, nakOk, txVars, rtVars, tmVars, rxVars, netVars>>
      /\ bexh # <<>> /\ bexh' = Tail(bexh)
      /\ bdma' = bdma \/ bdma' = NextVaddr(p, at)
      /\ \/ p.op # "READ" /\ written' = Append(written, w) /\ ackq' = Append(ackq, a) /\ readq' = readq
         \/ p.op = "READ" /\ readq' = readq \o ReadEvents(p) /\ ackq' = ackq /\ written' = written
  BY DEF RespExh
<1>2. UNCHANGED <<fwd, back, faults, reqs, psnOf, next>>
  BY <1>1 DEF netVars, txVars
<1>3. epsn \in Psn /\ bexh \in Seq(Event) /\ written \in Seq(WriteRec) /\ reqs \in Seq(KindSet)
      /\ psnOf \in Seq(Psn) /\ next \in Psn /\ ackq \in Seq(Event) /\ readq \in Seq(Event) /\ back \in Seq(Event)
      /\ bdma \in Nat
  BY <1>0 DEF RspTypes, TxTypes, NetTypes
<1>4. p \in Event /\ p = bexh[1] /\ 1 \in 1 .. Len(bexh) /\ bexh' \in Seq(Event)
  BY <1>1, <1>3, Tailed
<1>5. p.req \in Nat /\ p.psn \in Psn \cup {-1}
  BY <1>4 DEF Event
<1>6. a \in Event /\ a.op = "ACK" /\ a.psn = p.psn
  BY <1>5, AnswerIs DEF OpSet
<1>7. at \in Nat /\ NextVaddr(p, at) \in Nat
  BY <1>3, <1>5 DEF NextVaddr
<1>8. w \in WriteRec /\ w.data = p.req
  BY <1>5, <1>7 DEF WriteRec
<1>9. ReadEvents(p) \in Seq(Event)
  BY <1>4, ReadEventsTyped
<1>10. p = Head(bexh)
  OBVIOUS
<1> HIDE DEF p, at, w, a
<1>11. RspTypes'
  <2>1. Append(written, w) \in Seq(WriteRec) /\ Append(ackq, a) \in Seq(Event) /\ readq \o ReadEvents(p) \in Seq(Event)
    BY <1>3, <1>6, <1>8, <1>9, Appended, Joined
  <2>2. written' \in Seq(WriteRec) /\ ackq' \in Seq(Event) /\ readq' \in Seq(Event)
    BY <2>1, <1>1, <1>3
  <2>3. bdma' \in Nat
    BY <1>1, <1>3, <1>7
  <2> QED
    BY <2>2, <2>3, <1>0, <1>1, <1>4 DEF RspTypes
<1>12. Sound => Answered'
  <2> SUFFICES ASSUME Sound PROVE Answered'
    OBVIOUS
  <2>1. Executed(reqs, psnOf, epsn, written, bexh) /\ AtRequest(reqs, psnOf, next, epsn)
        /\ HonestAll(ackq, reqs, psnOf, epsn, written)
        /\ HonestAll(readq, reqs, psnOf, epsn, written)
        /\ HonestAll(back, reqs, psnOf, epsn, written)
    BY DEF Sound
  <2>2. Good(p, reqs, psnOf) /\ Distance(psnOf[p.req]) < Distance(epsn)
    BY <2>1, <1>4 DEF Executed
  <2>3. CASE p.op # "READ"
    <3>1. written' = Append(written, w) /\ ackq' = Append(ackq, a) /\ readq' = readq
      BY <2>3, <1>1
    <3>2. Executed(reqs, psnOf, epsn, written', bexh')
      BY <2>1, <2>3, <3>1, <1>1, <1>3, <1>8, <1>10, ExecutedWrite
    <3>3. p.psn \in Psn /\ Distance(p.psn) < Distance(epsn)
      <4>1. p.psn \in Psn /\ p.off \in 0 .. 0 /\ Distance(p.psn) = Distance(psnOf[p.req]) + p.off
            /\ p.req \in 1 .. Len(reqs)
        BY <2>2, <2>3 DEF Good, Pkgs
      <4>2. Distance(psnOf[p.req]) \in Nat
        BY <4>1, <1>0, <1>3, Starts
      <4> QED
        BY <4>1, <4>2, <2>2
    <3>4. Honest(a, reqs, psnOf, epsn, written)
      BY <3>3, <1>6, AckHonest
    <3>5. HonestAll(ackq', reqs, psnOf, epsn, written)
      BY <3>1, <3>4, <2>1, <1>3, <1>6, HonestOneMore
    <3>6. HonestAll(ackq', reqs, psnOf, epsn, written') /\ HonestAll(readq, reqs, psnOf, epsn, written')
          /\ HonestAll(back, reqs, psnOf, epsn, written')
      BY <3>1, <3>5, <2>1, <1>3, <1>8, HonestAllMore
    <3> QED
      BY <3>1, <3>2, <3>6, <2>1, <1>1, <1>2 DEF Answered
  <2>4. CASE p.op = "READ"
    <3>1. written' = written /\ ackq' = ackq /\ readq' = readq \o ReadEvents(p)
      BY <2>4, <1>1
    <3>2. Executed(reqs, psnOf, epsn, written, bexh')
          /\ \A k \in 1 .. p.req - 1 : reqs[k] # "READ" => Done(k, written)
      BY <2>1, <2>4, <1>1, <1>3, <1>10, ExecutedRead
    <3>3. HonestAll(ReadEvents(p), reqs, psnOf, epsn, written)
      BY <3>2, <2>2, <2>4, <1>0, <1>3, <1>4, ReadEventsHonest DEF HonestAll
    <3>4. Range(readq \o ReadEvents(p)) \subseteq Range(readq) \cup Range(ReadEvents(p))
      BY <1>3, <1>9, Joined
    <3>5. HonestAll(readq', reqs, psnOf, epsn, written)
      BY <3>1, <3>3, <3>4, <2>1 DEF HonestAll
    <3> QED
      BY <3>1, <3>2, <3>5, <2>1, <1>1, <1>2 DEF Answered
  <2> QED
    BY <2>3, <2>4
<1> QED
  BY <1>0, <1>1, <1>2, <1>11, <1>12, RespondsOnly DEF NetTypes

LEMMA RespSendStep ==
  ASSUME RoceInv, RespSend
  PROVE  RoceInv'
<1>0. RspTypes /\ NetTypes
  BY DEF RoceInv, Types
<1>1. /\ UNCHANGED <<epsn, nakOk, bexh, bdma, written, txVars, rtVars, tmVars, rxVars, fwd, faults>>
      /\ \/ ackq # <<>> /\ back' = Append(back, Head(ackq)) /\ ackq' = Tail(ackq) /\ readq' = readq
         \/ readq # <<>> /\ back' = Append(back, Head(readq)) /\ readq' = Tail(readq) /\ ackq' = ackq
  BY DEF RespSend
<1>2. back \in Seq(Event) /\ ackq \in Seq(Event) /\ readq \in Seq(Event) /\ fwd \in Seq(Event)
  BY <1>0 DEF RspTypes, NetTypes
<1>3. ackq # <<>> => /\ Head(ackq) \in Event /\ Head(ackq) \in Range(ackq)
                     /\ Tail(ackq) \in Seq(Event) /\ Range(Tail(ackq)) \subseteq Range(ackq)
  BY <1>2, QueueHead
<1>4. readq # <<>> => /\ Head(readq) \in Event /\ Head(readq) \in Range(readq)
                      /\ Tail(readq) \in Seq(Event) /\ Range(Tail(readq)) \subseteq Range(readq)
  BY <1>2, QueueHead
<1>5. RspTypes' /\ back' \in Seq(Event)
  <2>1. ackq' \in Seq(Event) /\ readq' \in Seq(Event)
    BY <1>1, <1>2, <1>3, <1>4
  <2>2. /\ ackq # <<>> => Append(back, Head(ackq)) \in Seq(Event)
        /\ readq # <<>> => Append(back, Head(readq)) \in Seq(Event)
    BY <1>2, <1>3, <1>4, Appended
  <2> QED
    BY <2>1, <2>2, <1>0, <1>1 DEF RspTypes
<1>6. Sound => Answered'
  <2> SUFFICES ASSUME Sound PROVE Answered'
    OBVIOUS
  <2>1. AtRequest(reqs, psnOf, next, epsn)
        /\ Executed(reqs, psnOf, epsn, written, bexh)
        /\ HonestAll(ackq, reqs, psnOf, epsn, written)
        /\ HonestAll(readq, reqs, psnOf, epsn, written)
        /\ HonestAll(back, reqs, psnOf, epsn, written)
    BY DEF Sound
  <2>2. Range(ackq') \subseteq Range(ackq) /\ Range(readq') \subseteq Range(readq)
    BY <1>1, <1>3, <1>4
  <2>3. HonestAll(ackq', reqs, psnOf, epsn, written) /\ HonestAll(readq', reqs, psnOf, epsn, written)
    BY <2>1, <2>2, HonestFewer
  <2>4. HonestAll(back', reqs, psnOf, epsn, written)
    <3>1. ackq # <<>> => Honest(Head(ackq), reqs, psnOf, epsn, written)
      BY <2>1, <1>3 DEF HonestAll
    <3>2. readq # <<>> => Honest(Head(readq), reqs, psnOf, epsn, written)
      BY <2>1, <1>4 DEF HonestAll
    <3> QED
      BY <3>1, <3>2, <2>1, <1>1, <1>2, <1>3, <1>4, HonestOneMore
  <2> QED
    BY <2>1, <2>3, <2>4, <1>1 DEF Answered, txVars
<1> QED
  BY <1>0, <1>1, <1>2, <1>5, <1>6, RespondsOnly DEF NetTypes

LEMMA FaultStep ==
  ASSUME RoceInv, Fault
  PROVE  RoceInv'
<1>0. RspTypes /\ NetTypes
  BY DEF RoceInv, Types
<1>1. /\ UNCHANGED <<txVars, rtVars, tmVars, rxVars, rspVars>> /\ faults < MaxFaults /\ faults' = faults + 1
      /\ \/ fwd' \in Faulty(fwd) /\ back' = back
         \/ back' \in Faulty(back) /\ fwd' = fwd
  BY DEF Fault
<1>2. fwd \in Seq(Event) /\ back \in Seq(Event)
  BY <1>0 DEF NetTypes
<1>3. fwd' \in Seq(Event) /\ Range(fwd') \subseteq Range(fwd) /\ back' \in Seq(Event) /\ Range(back') \subseteq Range(back)
  BY <1>1, <1>2, FaultyPart
<1>4. faults' \in 0 .. MaxFaults
  BY <1>0, <1>1, RoceAssumption DEF NetTypes
<1>5. UNCHANGED <<epsn, nakOk, bexh, bdma, ackq, readq, written, reqs, next, psnOf>>
  BY <1>1 DEF rspVars, txVars
<1>6. RspTypes'
  BY <1>0, <1>5 DEF RspTypes
<1>7. Sound => Answered'
  BY <1>3, <1>5, HonestFewer DEF Sound, Answered
<1> QED
  BY <1>1, <1>3, <1>4, <1>6, <1>7, RespondsOnly

-----------------------------------------------------------------------------
(* The specification. *)

LEMMA NextInv ==
  ASSUME RoceInv, [Next]_vars
  PROVE  RoceInv'
<1>1. CASE Next
  BY <1>1, LocalReqStep, LocalRetransStep, RetransUpdateStep, RetransNakStep, RetransTimerStep,
     RetransInsertStep, TimerExpiresStep, RxLoadStep, RxAcceptStep, RxDropStep, RxExhStep,
     RespExpectedStep, RespDuplicateStep, RespInvalidStep, RespExhStep, RespSendStep, FaultStep
     DEF Next
<1>2. CASE UNCHANGED vars
  <2>1. UNCHANGED <<txVars, rtVars, tmVars, rxVars, rspVars, netVars>>
    BY <1>2 DEF vars
  <2>2. TmTypes /\ RxTypes /\ NetTypes
    BY DEF RoceInv, Types
  <2>3. TmTypes' /\ RxTypes'
    BY <2>1, <2>2 DEF TmTypes, RxTypes, tmVars, rxVars
  <2> QED
    BY <2>1, <2>2, <2>3, ReceivesOnly DEF rtVars, netVars, NetTypes
<1> QED
  BY <1>1, <1>2

\* The invariant of the whole engine: the requester numbers its requests
\* without a gap, the retransmitter's list and its free list share the table,
\* every packet stands for a request, and the responder has executed exactly
\* the writes before the PSN it expects.
THEOREM Inductive == Spec => []RoceInv
<1>1. Init => RoceInv
  BY InitInv
<1>2. RoceInv /\ [Next]_vars => RoceInv'
  BY NextInv
<1> QED
  BY <1>1, <1>2, PTL DEF Spec

\* The history early is set by RetransUpdate only.
LEMMA EarlySteps ==
  ASSUME Next
  PROVE  early' = early \/ (RetransUpdate /\ early' = (early \/ ~ptr.valid))
<1>1. CASE LocalReq
  BY <1>1 DEF LocalReq
<1>2. CASE LocalRetrans
  BY <1>2 DEF LocalRetrans
<1>3. CASE RetransUpdate
  BY <1>3 DEF RetransUpdate
<1>4. CASE RetransNak
  BY <1>4 DEF RetransNak
<1>5. CASE RetransTimer
  BY <1>5 DEF RetransTimer
<1>6. CASE RetransInsert
  BY <1>6 DEF RetransInsert
<1>7. CASE TimerExpires
  BY <1>7 DEF TimerExpires, rtVars
<1>8. CASE RxLoad
  BY <1>8 DEF RxLoad, rtVars
<1>9. CASE RxAccept
  BY <1>9 DEF RxAccept
<1>10. CASE RxDrop
  BY <1>10 DEF RxDrop, rtVars
<1>11. CASE RxExh
  BY <1>11 DEF RxExh
<1>12. CASE RespExpected
  BY <1>12 DEF RespExpected, rtVars
<1>13. CASE RespDuplicate
  BY <1>13 DEF RespDuplicate, rtVars
<1>14. CASE RespInvalid
  BY <1>14 DEF RespInvalid, rtVars
<1>15. CASE RespExh
  BY <1>15 DEF RespExh, rtVars
<1>16. CASE RespSend
  BY <1>16 DEF RespSend, rtVars
<1>17. CASE Fault
  BY <1>17 DEF Fault, rtVars
<1> QED
  BY <1>1, <1>2, <1>3, <1>4, <1>5, <1>6, <1>7, <1>8, <1>9, <1>10, <1>11, <1>12, <1>13, <1>14,
     <1>15, <1>16, <1>17 DEF Next

EarlyKnown == early \in BOOLEAN
LEMMA EarlyType == Spec => []EarlyKnown
<1>1. Init => EarlyKnown
  BY DEF Init, EarlyKnown
<1>2. EarlyKnown /\ [Next]_vars => EarlyKnown'
  <2>1. CASE Next
    BY <2>1, EarlySteps DEF EarlyKnown
  <2>2. CASE UNCHANGED vars
    BY <2>2 DEF vars, rtVars, EarlyKnown
  <2> QED
    BY <2>1, <2>2
<1> QED
  BY <1>1, <1>2, PTL DEF Spec

\* The tables and FIFOs of the engine hold what they should, and every index of
\* meta_table is in the list or in rt_freeListFifo, once: releasing the head,
\* linking the tail and a retransmission in between lose none.
THEOREM TypeCorrect == Spec => []TypeOK
<1>1. RoceInv /\ EarlyKnown => TypeOK
  <2> SUFFICES ASSUME RoceInv, EarlyKnown PROVE TypeOK
    OBVIOUS
  <2>0. TxTypes /\ RtTypes /\ TmTypes /\ RxTypes /\ RspTypes /\ NetTypes /\ ListInv
    BY DEF RoceInv, Types
  <2>1. mtable \in [Slot -> MetaEntry] /\ ptr \in PtrEntry
    BY <2>0 DEF RtTypes
  <2>2. PICK q : IsList(q, mtable, ptr, freeq)
    BY <2>0 DEF ListInv
  <2>3. Len(Chain) = Len(q)
    BY <2>1, <2>2, ChainIs
  <2>4. freeq \in Seq(Slot) /\ Len(q) + Len(freeq) = TableSize
        /\ \A i, j \in 1 .. Len(freeq) : freeq[i] = freeq[j] => i = j
    BY <2>2 DEF IsList
  <2>5. IsInjective(freeq)
    BY <2>4 DEF IsInjective
  <2>6. Range(freeq) \subseteq 0 .. TableSize - 1
    BY <2>4 DEF Range, Slot
  <2>7. Len(Chain) + Len(freeq) = TableSize
    BY <2>3, <2>4
  <2>8. mtable \in [0 .. TableSize - 1 -> [ev : Event, next : 0 .. TableSize - 1, isTail : BOOLEAN]]
        /\ ptr \in [head : 0 .. TableSize - 1, tail : 0 .. TableSize - 1, valid : BOOLEAN]
    BY <2>1 DEF Slot, MetaEntry, PtrEntry
  <2>9. /\ reqs \in Seq({"SEND", "ONLY", "FIRST", "LAST", "READ"}) /\ Len(reqs) <= MaxReq
        /\ {next, unack, epsn} \subseteq Psn /\ psnOf \in Seq(Psn)
    BY <2>0 DEF TxTypes, RxTypes, RspTypes, KindSet
  <2>10. {insq, rtev, aexh, bexh, ackq, readq, fwd, back} \subseteq Seq(Event)
    BY <2>0 DEF RtTypes, RxTypes, RspTypes, NetTypes
  <2>11. /\ rt \in {"MAIN", "RETRANS_1"} /\ {nakOk, expired, miscut, early} \subseteq BOOLEAN
         /\ timer \in [active : BOOLEAN, retries : 0 .. MaxRetries]
         /\ faults \in 0 .. MaxFaults /\ late \in 0 .. MaxLate
    BY <2>0 DEF RtTypes, TmTypes, RspTypes, NetTypes, EarlyKnown
  <2> QED
    BY <2>5, <2>6, <2>7, <2>8, <2>9, <2>10, <2>11 DEF TypeOK
<1> QED
  BY <1>1, Inductive, EarlyType, PTL

\* What Payloads, the history of the payloads executed, is in the terms of the
\* invariant.
LEMMA PayloadsAre ==
  ASSUME written \in Seq(WriteRec)
  PROVE  /\ \A i \in 1 .. Len(written) : Payloads[i] = written[i].data
         /\ \A k : Done(k, written) <=> k \in Range(Payloads)
<1>1. DOMAIN Payloads = 1 .. Len(written) /\ \A i \in 1 .. Len(written) : Payloads[i] = written[i].data
  BY DEF Payloads
<1> QED
  BY <1>1 DEF Done, Range

\* Writes and SENDs are executed in the order they were issued, each once and
\* none left out, through any loss, duplication, reordering, NAK and timeout,
\* as long as no read response has cut an entry that is not its read.
THEOREM WritesOnceInOrder == Spec => []WritesInOrder
<1>1. RoceInv => WritesInOrder
  <2> SUFFICES ASSUME RoceInv, ~miscut
               PROVE  /\ \A i, j \in 1 .. Len(written) : i < j => Payloads[i] < Payloads[j]
                      /\ \A d \in Range(Payloads) :
                           /\ d \in 1 .. Len(reqs) /\ reqs[d] # "READ"
                           /\ \A j \in 1 .. d - 1 : reqs[j] # "READ" => j \in Range(Payloads)
    BY DEF WritesInOrder
  <2>0. written \in Seq(WriteRec) /\ bexh \in Seq(Event) /\ reqs \in Seq(KindSet) /\ psnOf \in Seq(Psn)
        /\ next \in Psn /\ epsn \in Psn /\ InPhase(reqs, psnOf, next)
    BY DEF RoceInv, Types, TxTypes, RspTypes
  <2>1. Executed(reqs, psnOf, epsn, written, bexh)
    BY DEF RoceInv, Sound
  <2>2. /\ \A i, j \in 1 .. Len(written) : i < j => written[i].data < written[j].data
        /\ \A i \in 1 .. Len(written) : written[i].data \in 1 .. Len(reqs) /\ reqs[written[i].data] # "READ"
                                        /\ Distance(psnOf[written[i].data]) < Distance(epsn)
        /\ \A i \in 1 .. Len(written), j \in 1 .. Len(bexh) : bexh[j].op # "READ" => written[i].data < bexh[j].req
        /\ \A k \in 1 .. Len(reqs) : reqs[k] # "READ" /\ Distance(psnOf[k]) < Distance(epsn) =>
             Done(k, written) \/ \E j \in 1 .. Len(bexh) : bexh[j].req = k
    BY <2>1 DEF Executed
  <2>3. \A i \in 1 .. Len(written) : Payloads[i] = written[i].data
    BY <2>0, PayloadsAre
  <2>4. \A k : Done(k, written) <=> k \in Range(Payloads)
    BY <2>0, PayloadsAre
  <2>5. \A i, j \in 1 .. Len(written) : i < j => Payloads[i] < Payloads[j]
    BY <2>2, <2>3
  <2>6. ASSUME NEW d \in Range(Payloads)
        PROVE  /\ d \in 1 .. Len(reqs) /\ reqs[d] # "READ"
               /\ \A j \in 1 .. d - 1 : reqs[j] # "READ" => j \in Range(Payloads)
    <3>1. PICK i \in 1 .. Len(written) : written[i].data = d
      BY <2>4 DEF Done
    <3>2. d \in 1 .. Len(reqs) /\ reqs[d] # "READ" /\ Distance(psnOf[d]) < Distance(epsn)
      BY <3>1, <2>2
    <3>3. ASSUME NEW k \in 1 .. d - 1, reqs[k] # "READ" PROVE k \in Range(Payloads)
      <4>1. Len(reqs) \in Nat
        BY <2>0
      <4>2. k \in 1 .. Len(reqs) /\ k < d
        BY <4>1, <3>2
      <4>3. Distance(psnOf[k]) < Distance(psnOf[d]) /\ Distance(psnOf[k]) \in Nat /\ Distance(psnOf[d]) \in Nat
        BY <4>2, <3>2, <2>0, Starts
      <4>4. Distance(epsn) \in Nat
        BY <2>0, DistanceIs
      <4>5. Done(k, written) \/ \E j \in 1 .. Len(bexh) : bexh[j].req = k
        BY <4>2, <4>3, <4>4, <3>2, <3>3, <2>2
      <4>6. ASSUME NEW j \in 1 .. Len(bexh), bexh[j].req = k PROVE FALSE
        <5>1. bexh[j].op = reqs[k]
          BY <4>6, <2>0, <2>1, Accepts
        <5>2. d < k
          BY <5>1, <4>6, <3>1, <3>3, <2>2
        <5> QED
          BY <5>2, <4>2, <3>2
      <4> QED
        BY <4>5, <4>6, <2>4
    <3> QED
      BY <3>2, <3>3
  <2> QED
    BY <2>5, <2>6
<1> QED
  BY <1>1, Inductive, PTL

LEMMA AcceptedAre ==
  ASSUME RoceInv, ~miscut, NEW d \in Int, d <= Distance(epsn)
  PROVE  AcceptedBefore(d)
<1>0. written \in Seq(WriteRec) /\ bexh \in Seq(Event) /\ reqs \in Seq(KindSet) /\ psnOf \in Seq(Psn)
      /\ next \in Psn /\ epsn \in Psn /\ InPhase(reqs, psnOf, next)
  BY DEF RoceInv, Types, TxTypes, RspTypes
<1>1. \A k \in 1 .. Len(reqs) : reqs[k] # "READ" /\ Distance(psnOf[k]) < Distance(epsn) =>
        Done(k, written) \/ \E j \in 1 .. Len(bexh) : bexh[j].req = k
  BY DEF RoceInv, Sound, Executed
<1>2. DOMAIN psnOf = 1 .. Len(reqs) /\ \A k \in 1 .. Len(reqs) : Distance(psnOf[k]) \in Nat
  <2>1. Len(psnOf) = Len(reqs)
    BY <1>0 DEF InPhase
  <2> QED
    BY <2>1, <1>0, Starts
<1>3. Distance(epsn) \in Nat
  BY <1>0, DistanceIs
<1>4. ASSUME NEW k \in DOMAIN psnOf, reqs[k] # "READ", Distance(psnOf[k]) < d PROVE k \in Accepted
  <2>1. Distance(psnOf[k]) < Distance(epsn)
    BY <1>2, <1>3, <1>4
  <2>2. Done(k, written) \/ \E j \in 1 .. Len(bexh) : bexh[j].req = k
    BY <2>1, <1>1, <1>2, <1>4
  <2>3. Done(k, written) => k \in Range(Payloads)
    BY <1>0, PayloadsAre
  <2>4. \A j \in 1 .. Len(bexh) : bexh[j] \in Range(bexh)
    BY <1>0 DEF Range
  <2> QED
    BY <2>2, <2>3, <2>4 DEF Accepted
<1> QED
  BY <1>4 DEF AcceptedBefore

\* An ACK, a NAK or read data that is queued, under way or delayed in the
\* network says what has really been accepted or read, as long as no entry was
\* cut for a response that is not its own.
THEOREM ResponderHonest == Spec => []AnswersHonest
<1>1. RoceInv => AnswersHonest
  <2> SUFFICES ASSUME RoceInv, ~miscut, NEW a \in Range(ackq) \cup Range(readq) \cup Range(back)
               PROVE  CASE a.op = "ACK" -> /\ Distance(a.psn) < Distance(epsn)
                                           /\ AcceptedBefore(Distance(a.psn) + 1)
                        [] a.op = "NAK" -> /\ a.psn \in Range(psnOf)
                                           /\ AcceptedBefore(Distance(a.psn))
                        [] OTHER -> /\ a.psn = Plus(psnOf[a.req], a.off)
                                    /\ \A j \in 1 .. a.req - 1 :
                                         reqs[j] # "READ" => j \in Range(Payloads)
    BY DEF AnswersHonest
  <2>0. written \in Seq(WriteRec) /\ reqs \in Seq(KindSet) /\ psnOf \in Seq(Psn) /\ epsn \in Psn
        /\ next \in Psn /\ InPhase(reqs, psnOf, next)
    BY DEF RoceInv, Types, TxTypes, RspTypes
  <2>1. Honest(a, reqs, psnOf, epsn, written)
    BY DEF RoceInv, Sound, HonestAll
  <2>2. Distance(epsn) \in Nat
    BY <2>0, DistanceIs
  <2>3. CASE a.op = "ACK"
    <3>1. a.psn \in Psn /\ Distance(a.psn) < Distance(epsn)
      BY <2>1, <2>3 DEF Honest
    <3>2. Distance(a.psn) \in Nat
      BY <3>1, DistanceIs
    <3>3. Distance(a.psn) + 1 \in Int /\ Distance(a.psn) + 1 <= Distance(epsn)
      BY <3>1, <3>2, <2>2
    <3>4. AcceptedBefore(Distance(a.psn) + 1)
      BY <3>3, AcceptedAre
    <3> QED
      BY <3>1, <3>4, <2>3
  <2>4. CASE a.op = "NAK"
    <3>1. Distance(a.psn) <= Distance(epsn) /\ \E k \in 1 .. Len(reqs) : a.psn = psnOf[k]
      BY <2>1, <2>4 DEF Honest
    <3>2. Len(psnOf) = Len(reqs)
      BY <2>0 DEF InPhase
    <3>3. a.psn \in Range(psnOf) /\ a.psn \in Psn
      BY <3>1, <3>2, <2>0 DEF Range
    <3>4. Distance(a.psn) \in Int
      BY <3>3, DistanceIs
    <3>5. AcceptedBefore(Distance(a.psn))
      BY <3>1, <3>4, AcceptedAre
    <3> QED
      BY <3>3, <3>5, <2>4
  <2>5. CASE a.op \notin {"ACK", "NAK"}
    <3>1. a.psn = Plus(psnOf[a.req], a.off) /\ \A k \in 1 .. a.req - 1 : reqs[k] # "READ" => Done(k, written)
      BY <2>1, <2>5 DEF Honest
    <3>2. \A j \in 1 .. a.req - 1 : reqs[j] # "READ" => j \in Range(Payloads)
      BY <3>1, <2>0, PayloadsAre
    <3> QED
      BY <3>1, <3>2, <2>5
  <2> QED
    BY <2>3, <2>4, <2>5
<1> QED
  BY <1>1, Inductive, PTL

-----------------------------------------------------------------------------
(* The connection that nothing disturbs.  Everything under way is in order, *)
(* from the requests that travel to the responses that come back, and the   *)
(* queues are told apart by the position of the PSN they begin with.        *)

\* Where request x + 1 begins, or will begin.
Start(x, S, n) == IF x = Len(S) THEN Distance(n) ELSE Distance(S[x + 1])

\* A request as it was issued, and a queue of requests after the first b.
Full(r, R, S) == [op |-> R[r], req |-> r, off |-> 0, len |-> Pkgs(R[r]), psn |-> S[r]]
FullAt(s, b, R, S) == \A k \in 1 .. Len(s) : b + k \in 1 .. Len(R) /\ s[k] = Full(b + k, R, S)

\* What is answered to packet o of a request.
RespOp(o) ==
  IF ReadPkgs = 1 THEN "RESP_ONLY" ELSE IF o = 0 THEN "RESP_FIRST"
  ELSE IF o = ReadPkgs - 1 THEN "RESP_LAST" ELSE "RESP_MIDDLE"
OpOf(kind, o) == IF kind = "READ" THEN RespOp(o) ELSE "ACK"

\* Position d is packet o of request r.
Place(r, o, d, R, S) ==
  r \in 1 .. Len(R) /\ o \in 0 .. Pkgs(R[r]) - 1 /\ d = Distance(S[r]) + o

OpAt(op, d, R, S) == \E r, o : Place(r, o, d, R, S) /\ op = OpOf(R[r], o)
Resp(p, d, R, S) ==
  /\ p.psn \in Psn /\ Distance(p.psn) = d
  /\ \E r, o : /\ Place(r, o, d, R, S) /\ p.op = OpOf(R[r], o)
               /\ R[r] = "READ" => p.req = r /\ p.off = o

\* Queues of such answers, from position d on.
OpsAt(s, d, R, S) == \A k \in 1 .. Len(s) : OpAt(s[k], d + k - 1, R, S)
RespAt(s, d, R, S) == \A k \in 1 .. Len(s) : Resp(s[k], d + k - 1, R, S)

\* No retransmission.
Quiet == rt = "MAIN" /\ nakq = <<>> /\ ~expired /\ rtev = <<>>

\* The responder has received Asked requests and executed Run of them.
Asked == Len(reqs) - Len(fwd)
Run == Asked - Len(bexh)
Outbound ==
  /\ 0 <= Run
  /\ FullAt(fwd, Asked, reqs, psnOf) /\ FullAt(bexh, Run, reqs, psnOf)
  /\ Distance(epsn) = Start(Asked, psnOf, next)

\* It has sent the answers before position Said, and the requester has seen those
\* before unack.
Said == Start(Run, psnOf, next) - Len(ackq) - Len(readq)
Inbound ==
  /\ ackq = <<>> \/ readq = <<>>
  /\ \A k \in 1 .. Len(ackq) : ackq[k].op = "ACK"
  /\ \A k \in 1 .. Len(readq) : readq[k].op # "ACK"
  /\ RespAt(ackq, Said, reqs, psnOf) /\ RespAt(readq, Said, reqs, psnOf)
  /\ RespAt(back, Said - Len(back), reqs, psnOf)
  /\ arx = None => Distance(unack) = Said - Len(back)
  /\ arx # None => /\ Distance(unack) = Said - Len(back) - 1 /\ arx.epsn = unack
                   /\ Resp(arx.pkt, Distance(unack), reqs, psnOf)

\* The retransmitter has taken the answers before Updated and released no more
\* requests than that.  If it never missed one, the head of the list is what is
\* left of the request at that position.
Updated == Distance(unack) - Len(updq)
FollowsAt(h, q, R, S, n, mt, iq, u, ea) ==
  /\ h >= 0 /\ FullAt(iq, Len(R) - Len(iq), R, S)
  /\ \A k \in 1 .. Len(q) : mt[q[k]].ev.req = h + k
  /\ Start(h, S, n) <= u
  /\ ~ea => /\ q = <<>> => Start(h, S, n) = u
            /\ q # <<>> => mt[q[1]].ev.off = u - Start(h, S, n) /\ u < Start(h + 1, S, n)
            /\ \A k \in 2 .. Len(q) : mt[q[k]].ev.off = 0
Follows(q, R, S, n, mt, iq, u, ea) ==
  FollowsAt(Len(R) - Len(iq) - Len(q), q, R, S, n, mt, iq, u, ea)
Listed ==
  /\ updq \in Seq(OpSet) /\ OpsAt(updq, Updated, reqs, psnOf)
  /\ \E q : /\ IsList(q, mtable, ptr, freeq)
            /\ Follows(q, reqs, psnOf, next, mtable, insq, Updated, early)

\* The data before position e was stored, with the first packets of g reads; the
\* addresses of the next ones wait.
Landing(g, R, S, n, u, e, ri, ad) ==
  /\ g \in Nat /\ g + Len(ri) <= Len(R)
  /\ \A k \in 1 .. Len(ri) : ri[k] = <<g + k, 0>>
  /\ e <= Start(g, S, n) /\ (g > 0 => Start(g - 1, S, n) < e)
  /\ u <= Start(g + Len(ri), S, n) /\ (g + Len(ri) > 0 => Start((g + Len(ri)) - 1, S, n) < u)
  /\ g > 0 /\ e < Start(g, S, n) => ad = <<g, e - Start(g - 1, S, n)>>
Stored == Distance(unack) - Len(aexh)
Reading ==
  /\ rdinit \in Seq(Nat \X Int)
  /\ RespAt(aexh, Stored, reqs, psnOf) /\ \A k \in 1 .. Len(aexh) : aexh[k].op # "ACK"
  /\ ~early => \A d \in landed : d.at = d.data
  /\ (\A i \in 1 .. Len(reqs) : reqs[i] = "READ") /\ ~early =>
       \E g : Landing(g, reqs, psnOf, next, Updated, Stored, rdinit, adma)

\* A write is stored at its address, its last packet behind the one before.
FirstLast(R) ==
  /\ \A i \in 1 .. Len(R) - 1 : R[i + 1] = "LAST" => R[i] = "FIRST"
  /\ Len(R) > 0 => R[1] # "LAST"
Writing ==
  /\ FirstLast(reqs)
  /\ \A d \in Range(written) : d.at = d.data
  /\ Run > 0 /\ reqs[Run] = "FIRST" => bdma = Run + 1

Flow == Quiet /\ Outbound /\ Inbound /\ Listed /\ Reading /\ Writing

LEMMA StartIs ==
  ASSUME NEW R \in Seq(KindSet), NEW S \in Seq(Psn), NEW n \in Psn, InPhase(R, S, n)
  PROVE  /\ Len(R) \in Nat /\ Len(S) = Len(R)
         /\ \A x \in 0 .. Len(R) : Start(x, S, n) \in Nat /\ Start(x, S, n) <= Distance(n)
         /\ \A x \in 0 .. Len(R) - 1 : Start(x + 1, S, n) = Start(x, S, n) + Pkgs(R[x + 1])
         /\ \A x, y \in 0 .. Len(R) : x < y => Start(x, S, n) < Start(y, S, n)
         /\ \A i \in 1 .. Len(R) : Distance(S[i]) = Start(i - 1, S, n)
         /\ Start(Len(R), S, n) = Distance(n)
<1>1. /\ Len(R) \in Nat /\ Len(S) = Len(R) /\ Distance(n) \in Nat
      /\ \A i \in 1 .. Len(R) : Distance(S[i]) \in Nat /\ Distance(S[i]) < Distance(n)
      /\ \A i, j \in 1 .. Len(R) : i < j => Distance(S[i]) < Distance(S[j])
  BY Starts
<1>2. /\ \A i \in 1 .. Len(R) - 1 : Distance(S[i]) + Pkgs(R[i]) = Distance(S[i + 1])
      /\ Len(R) > 0 => Distance(S[Len(R)]) + Pkgs(R[Len(R)]) = Distance(n)
  BY DEF InPhase
<1>3. /\ Start(Len(R), S, n) = Distance(n)
      /\ \A x \in 0 .. Len(R) - 1 : Start(x, S, n) = Distance(S[x + 1])
  BY <1>1 DEF Start
<1>4. \A i \in 1 .. Len(R) : Distance(S[i]) = Start(i - 1, S, n)
  BY <1>1, <1>3
<1>5. \A x \in 0 .. Len(R) : Start(x, S, n) \in Nat /\ Start(x, S, n) <= Distance(n)
  <2> TAKE x \in 0 .. Len(R)
  <2>1. CASE x = Len(R)
    BY <1>1, <1>3, <2>1
  <2>2. CASE x # Len(R)
    <3>1. x \in 0 .. Len(R) - 1 /\ x + 1 \in 1 .. Len(R)
      BY <1>1, <2>2
    <3> QED
      BY <1>1, <1>3, <3>1
  <2> QED
    BY <2>1, <2>2
<1>6. \A x \in 0 .. Len(R) - 1 : Start(x + 1, S, n) = Start(x, S, n) + Pkgs(R[x + 1])
  <2> TAKE x \in 0 .. Len(R) - 1
  <2>1. CASE x = Len(R) - 1
    <3>1. x + 1 = Len(R) /\ Len(R) > 0
      BY <1>1, <2>1
    <3> QED
      BY <1>2, <1>3, <3>1
  <2>2. CASE x # Len(R) - 1
    <3>1. x + 1 \in 1 .. Len(R) - 1 /\ x + 1 \in 0 .. Len(R) - 1
      BY <1>1, <2>2
    <3> QED
      BY <1>2, <1>3, <3>1
  <2> QED
    BY <2>1, <2>2
<1>7. \A x, y \in 0 .. Len(R) : x < y => Start(x, S, n) < Start(y, S, n)
  <2> SUFFICES ASSUME NEW x \in 0 .. Len(R), NEW y \in 0 .. Len(R), x < y
               PROVE  Start(x, S, n) < Start(y, S, n)
    OBVIOUS
  <2>1. x \in 0 .. Len(R) - 1 /\ x + 1 \in 1 .. Len(R)
    BY <1>1
  <2>2. CASE y = Len(R)
    BY <1>1, <1>3, <2>1, <2>2
  <2>3. CASE y # Len(R)
    <3>1. y \in 0 .. Len(R) - 1 /\ y + 1 \in 1 .. Len(R) /\ x + 1 < y + 1
      BY <1>1, <2>3
    <3> QED
      BY <1>1, <1>3, <2>1, <3>1
  <2> QED
    BY <2>2, <2>3
<1> QED
  BY <1>1, <1>3, <1>4, <1>5, <1>6, <1>7

\* Positions tell requests apart.
LEMMA Placed ==
  ASSUME NEW R \in Seq(KindSet), NEW S \in Seq(Psn), NEW n \in Psn, InPhase(R, S, n),
         NEW r, NEW o, NEW d, Place(r, o, d, R, S)
  PROVE  /\ r \in 1 .. Len(R) /\ r - 1 \in 0 .. Len(R) /\ r \in 0 .. Len(R) /\ o \in Nat /\ d \in Nat
         /\ o <= Pkgs(R[r]) - 1
         /\ d = Start(r - 1, S, n) + o /\ Start(r, S, n) = Start(r - 1, S, n) + Pkgs(R[r])
         /\ d < Start(r, S, n) /\ d < Distance(n)
         /\ \A x \in 0 .. Len(R) : /\ Start(x, S, n) <= d => x <= r - 1
                                   /\ d < Start(x, S, n) => r <= x
<1>1. /\ Len(R) \in Nat /\ Len(S) = Len(R) /\ Distance(n) \in Nat
      /\ \A x \in 0 .. Len(R) : Start(x, S, n) \in Nat /\ Start(x, S, n) <= Distance(n)
      /\ \A x \in 0 .. Len(R) - 1 : Start(x + 1, S, n) = Start(x, S, n) + Pkgs(R[x + 1])
      /\ \A x, y \in 0 .. Len(R) : x < y => Start(x, S, n) < Start(y, S, n)
      /\ \A i \in 1 .. Len(R) : Distance(S[i]) = Start(i - 1, S, n)
  BY StartIs, Starts
<1>2. r \in 1 .. Len(R) /\ o \in 0 .. Pkgs(R[r]) - 1 /\ d = Distance(S[r]) + o
  BY DEF Place
<1>3. r - 1 \in 0 .. Len(R) - 1 /\ r - 1 \in 0 .. Len(R) /\ r \in 0 .. Len(R) /\ (r - 1) + 1 = r
  BY <1>1, <1>2
<1>4. Pkgs(R[r]) \in Nat /\ o \in Nat /\ o <= Pkgs(R[r]) - 1
  BY <1>2, PkgsIs
<1>5. d = Start(r - 1, S, n) + o /\ Start(r, S, n) = Start(r - 1, S, n) + Pkgs(R[r])
  BY <1>1, <1>2, <1>3
<1>6. /\ Start(r - 1, S, n) \in Nat /\ Start(r, S, n) \in Nat /\ Start(r, S, n) <= Distance(n)
      /\ \A x \in 0 .. Len(R) : x < r - 1 => Start(x, S, n) < Start(r - 1, S, n)
  BY <1>1, <1>3
<1>7. d \in Nat /\ d < Start(r, S, n) /\ d < Distance(n) /\ Start(r - 1, S, n) <= d
  BY ONLY <1>1, <1>4, <1>5, <1>6
<1>8. ASSUME NEW x \in 0 .. Len(R), Start(x, S, n) <= d
      PROVE  x <= r - 1
  <2>1. ~(r < x) /\ r # x
    BY <1>1, <1>3, <1>7, <1>8
  <2> QED
    BY <1>1, <1>3, <2>1
<1>9. ASSUME NEW x \in 0 .. Len(R), d < Start(x, S, n)
      PROVE  r <= x
  <2>0. Start(x, S, n) \in Nat
    BY <1>1
  <2>1. ~(x < r - 1) /\ x # r - 1
    BY <1>7, <1>9, <1>6, <2>0
  <2> QED
    BY <1>1, <1>3, <2>1
<1> QED
  BY <1>2, <1>3, <1>4, <1>5, <1>7, <1>8, <1>9

\* A new request moves no position.
LEMMA StartNew ==
  ASSUME NEW R \in Seq(KindSet), NEW S \in Seq(Psn), NEW n \in Psn, InPhase(R, S, n), NEW m
  PROVE  \A x \in 0 .. Len(R) : Start(x, Append(S, n), m) = Start(x, S, n)
<1>1. Len(R) \in Nat /\ Len(S) = Len(R)
  BY Starts
<1>2. /\ Len(Append(S, n)) = Len(R) + 1 /\ Append(S, n)[Len(R) + 1] = n
      /\ \A i \in 1 .. Len(R) : Append(S, n)[i] = S[i]
  BY <1>1, Appended
<1> TAKE x \in 0 .. Len(R)
<1>3. Start(x, Append(S, n), m) = Distance(Append(S, n)[x + 1])
  BY <1>1, <1>2 DEF Start
<1>4. CASE x = Len(R)
  BY <1>1, <1>2, <1>3, <1>4 DEF Start
<1>5. CASE x # Len(R)
  <2>1. x + 1 \in 1 .. Len(R)
    BY <1>1, <1>5
  <2> QED
    BY <1>1, <1>2, <1>3, <1>5, <2>1 DEF Start
<1> QED
  BY <1>4, <1>5

LEMMA PlaceNew ==
  ASSUME NEW R \in Seq(KindSet), NEW S \in Seq(Psn), NEW n \in Psn, InPhase(R, S, n),
         NEW k \in KindSet, NEW r, NEW o, NEW d, Place(r, o, d, R, S)
  PROVE  Place(r, o, d, Append(R, k), Append(S, n)) /\ Append(R, k)[r] = R[r]
<1>1. r \in 1 .. Len(R) /\ Len(R) \in Nat /\ Len(Append(R, k)) = Len(R) + 1
      /\ Append(R, k)[r] = R[r] /\ Append(S, n)[r] = S[r]
  BY Extended DEF Place
<1> QED
  BY <1>1 DEF Place

LEMMA RespNew ==
  ASSUME NEW R \in Seq(KindSet), NEW S \in Seq(Psn), NEW n \in Psn, InPhase(R, S, n),
         NEW k \in KindSet, NEW p, NEW d, Resp(p, d, R, S)
  PROVE  Resp(p, d, Append(R, k), Append(S, n))
<1>1. PICK r, o : /\ Place(r, o, d, R, S) /\ p.op = OpOf(R[r], o)
                  /\ R[r] = "READ" => p.req = r /\ p.off = o
  BY DEF Resp
<1>2. Place(r, o, d, Append(R, k), Append(S, n)) /\ Append(R, k)[r] = R[r]
  <2>1. Place(r, o, d, R, S)
    BY <1>1
  <2> QED
    BY <2>1, PlaceNew
<1>3. p.op = OpOf(Append(R, k)[r], o) /\ (Append(R, k)[r] = "READ" => p.req = r /\ p.off = o)
  BY ONLY <1>1, <1>2
<1>4. p.psn \in Psn /\ Distance(p.psn) = d
  BY DEF Resp
<1> DEFINE A == Append(R, k)
           B == Append(S, n)
<1>5. Place(r, o, d, A, B) /\ p.op = OpOf(A[r], o) /\ (A[r] = "READ" => p.req = r /\ p.off = o)
  BY <1>2, <1>3
<1> HIDE DEF A, B
<1>6. Resp(p, d, A, B)
  BY <1>4, <1>5 DEF Resp
<1> QED
  BY <1>6 DEF A, B

LEMMA OpNew ==
  ASSUME NEW R \in Seq(KindSet), NEW S \in Seq(Psn), NEW n \in Psn, InPhase(R, S, n),
         NEW k \in KindSet, NEW p, NEW d, OpAt(p, d, R, S)
  PROVE  OpAt(p, d, Append(R, k), Append(S, n))
<1>1. PICK r, o : Place(r, o, d, R, S) /\ p = OpOf(R[r], o)
  BY DEF OpAt
<1>2. Place(r, o, d, Append(R, k), Append(S, n)) /\ Append(R, k)[r] = R[r]
  BY <1>1, PlaceNew
<1> QED
  BY <1>1, <1>2 DEF OpAt

\* The queues keep what they hold when a request is issued.
LEMMA QueuesNew ==
  ASSUME NEW R \in Seq(KindSet), NEW S \in Seq(Psn), NEW n \in Psn, InPhase(R, S, n),
         NEW k \in KindSet, NEW s, NEW d
  PROVE  /\ RespAt(s, d, R, S) => RespAt(s, d, Append(R, k), Append(S, n))
         /\ OpsAt(s, d, R, S) => OpsAt(s, d, Append(R, k), Append(S, n))
         /\ FullAt(s, d, R, S) => FullAt(s, d, Append(R, k), Append(S, n))
<1>1. RespAt(s, d, R, S) => RespAt(s, d, Append(R, k), Append(S, n))
  BY RespNew DEF RespAt
<1>2. OpsAt(s, d, R, S) => OpsAt(s, d, Append(R, k), Append(S, n))
  BY OpNew DEF OpsAt
<1>3. ASSUME FullAt(s, d, R, S), NEW i \in 1 .. Len(s)
      PROVE  d + i \in 1 .. Len(Append(R, k)) /\ s[i] = Full(d + i, Append(R, k), Append(S, n))
  <2>1. d + i \in 1 .. Len(R) /\ s[i] = Full(d + i, R, S)
    BY <1>3 DEF FullAt
  <2>2. /\ Len(R) \in Nat /\ Len(Append(R, k)) = Len(R) + 1
        /\ Append(R, k)[d + i] = R[d + i] /\ Append(S, n)[d + i] = S[d + i]
    BY <2>1, Extended
  <2> QED
    BY <2>1, <2>2 DEF Full
<1> QED
  BY <1>1, <1>2, <1>3 DEF FullAt

LEMMA RespTaken ==
  ASSUME NEW T, NEW s \in Seq(T), s # <<>>, NEW d \in Int, NEW R, NEW S, RespAt(s, d, R, S)
  PROVE  Resp(Head(s), d, R, S) /\ RespAt(Tail(s), d + 1, R, S)
<1>1. /\ Tail(s) \in Seq(T) /\ Len(Tail(s)) = Len(s) - 1 /\ Len(s) >= 1 /\ Len(s) \in Nat
      /\ \A i \in 1 .. Len(s) - 1 : Tail(s)[i] = s[i + 1]
      /\ Head(s) = s[1]
  BY Tailed
<1>2. Resp(Head(s), d, R, S)
  BY <1>1 DEF RespAt
<1>3. ASSUME NEW i \in 1 .. Len(Tail(s)) PROVE Resp(Tail(s)[i], d + 1 + i - 1, R, S)
  <2>1. i + 1 \in 1 .. Len(s) /\ d + (i + 1) - 1 = d + 1 + i - 1 /\ Tail(s)[i] = s[i + 1]
    BY <1>1
  <2>2. Resp(s[i + 1], d + (i + 1) - 1, R, S)
    BY <2>1 DEF RespAt
  <2> QED
    BY <2>1, <2>2
<1> QED
  BY <1>2, <1>3 DEF RespAt

LEMMA RespAdded ==
  ASSUME NEW T, NEW s \in Seq(T), NEW e \in T, NEW d \in Int, NEW R, NEW S, RespAt(s, d, R, S),
         Resp(e, d + Len(s), R, S)
  PROVE  RespAt(Append(s, e), d, R, S)
<1>1. /\ Len(s) \in Nat /\ Len(Append(s, e)) = Len(s) + 1
      /\ \A i \in 1 .. Len(s) : Append(s, e)[i] = s[i]
      /\ Append(s, e)[Len(s) + 1] = e
  BY Appended
<1>2. ASSUME NEW i \in 1 .. Len(Append(s, e)) PROVE Resp(Append(s, e)[i], d + i - 1, R, S)
  <2>1. CASE i \in 1 .. Len(s)
    BY <1>1, <2>1 DEF RespAt
  <2>2. CASE i \notin 1 .. Len(s)
    <3>1. i = Len(s) + 1 /\ d + i - 1 = d + Len(s)
      BY <1>1, <2>2
    <3> QED
      BY <1>1, <3>1
  <2> QED
    BY <2>1, <2>2
<1> QED
  BY <1>2 DEF RespAt

LEMMA OpsTaken ==
  ASSUME NEW T, NEW s \in Seq(T), s # <<>>, NEW d \in Int, NEW R, NEW S, OpsAt(s, d, R, S)
  PROVE  OpAt(Head(s), d, R, S) /\ OpsAt(Tail(s), d + 1, R, S)
<1>1. /\ Tail(s) \in Seq(T) /\ Len(Tail(s)) = Len(s) - 1 /\ Len(s) >= 1 /\ Len(s) \in Nat
      /\ \A i \in 1 .. Len(s) - 1 : Tail(s)[i] = s[i + 1]
      /\ Head(s) = s[1]
  BY Tailed
<1>2. OpAt(Head(s), d, R, S)
  BY <1>1 DEF OpsAt
<1>3. ASSUME NEW i \in 1 .. Len(Tail(s)) PROVE OpAt(Tail(s)[i], d + 1 + i - 1, R, S)
  <2>1. i + 1 \in 1 .. Len(s) /\ d + (i + 1) - 1 = d + 1 + i - 1 /\ Tail(s)[i] = s[i + 1]
    BY <1>1
  <2>2. OpAt(s[i + 1], d + (i + 1) - 1, R, S)
    BY <2>1 DEF OpsAt
  <2> QED
    BY <2>1, <2>2
<1> QED
  BY <1>2, <1>3 DEF OpsAt

LEMMA OpsAdded ==
  ASSUME NEW T, NEW s \in Seq(T), NEW e \in T, NEW d \in Int, NEW R, NEW S, OpsAt(s, d, R, S),
         OpAt(e, d + Len(s), R, S)
  PROVE  OpsAt(Append(s, e), d, R, S)
<1>1. /\ Len(s) \in Nat /\ Len(Append(s, e)) = Len(s) + 1
      /\ \A i \in 1 .. Len(s) : Append(s, e)[i] = s[i]
      /\ Append(s, e)[Len(s) + 1] = e
  BY Appended
<1>2. ASSUME NEW i \in 1 .. Len(Append(s, e)) PROVE OpAt(Append(s, e)[i], d + i - 1, R, S)
  <2>1. CASE i \in 1 .. Len(s)
    BY <1>1, <2>1 DEF OpsAt
  <2>2. CASE i \notin 1 .. Len(s)
    <3>1. i = Len(s) + 1 /\ d + i - 1 = d + Len(s)
      BY <1>1, <2>2
    <3> QED
      BY <1>1, <3>1
  <2> QED
    BY <2>1, <2>2
<1> QED
  BY <1>2 DEF OpsAt

LEMMA FullTaken ==
  ASSUME NEW T, NEW s \in Seq(T), s # <<>>, NEW b \in Int, NEW R, NEW S, FullAt(s, b, R, S)
  PROVE  b + 1 \in 1 .. Len(R) /\ Head(s) = Full(b + 1, R, S) /\ FullAt(Tail(s), b + 1, R, S)
<1>1. /\ Tail(s) \in Seq(T) /\ Len(Tail(s)) = Len(s) - 1 /\ Len(s) >= 1 /\ Len(s) \in Nat
      /\ \A i \in 1 .. Len(s) - 1 : Tail(s)[i] = s[i + 1]
      /\ Head(s) = s[1]
  BY Tailed
<1>2. b + 1 \in 1 .. Len(R) /\ Head(s) = Full(b + 1, R, S)
  BY <1>1 DEF FullAt
<1>3. ASSUME NEW i \in 1 .. Len(Tail(s))
      PROVE  b + 1 + i \in 1 .. Len(R) /\ Tail(s)[i] = Full(b + 1 + i, R, S)
  <2>1. i + 1 \in 1 .. Len(s) /\ b + (i + 1) = b + 1 + i /\ Tail(s)[i] = s[i + 1]
    BY <1>1
  <2>2. b + (i + 1) \in 1 .. Len(R) /\ s[i + 1] = Full(b + (i + 1), R, S)
    BY <2>1 DEF FullAt
  <2> QED
    BY <2>1, <2>2
<1> QED
  BY <1>2, <1>3 DEF FullAt

LEMMA FullAdded ==
  ASSUME NEW T, NEW s \in Seq(T), NEW e \in T, NEW b \in Int, NEW R, NEW S, FullAt(s, b, R, S),
         b + Len(s) + 1 \in 1 .. Len(R), e = Full(b + Len(s) + 1, R, S)
  PROVE  FullAt(Append(s, e), b, R, S)
<1>1. /\ Len(s) \in Nat /\ Len(Append(s, e)) = Len(s) + 1
      /\ \A i \in 1 .. Len(s) : Append(s, e)[i] = s[i]
      /\ Append(s, e)[Len(s) + 1] = e
  BY Appended
<1>2. ASSUME NEW i \in 1 .. Len(Append(s, e))
      PROVE  b + i \in 1 .. Len(R) /\ Append(s, e)[i] = Full(b + i, R, S)
  <2>1. CASE i \in 1 .. Len(s)
    BY <1>1, <2>1 DEF FullAt
  <2>2. CASE i \notin 1 .. Len(s)
    <3>1. i = Len(s) + 1 /\ b + i = b + Len(s) + 1
      BY <1>1, <2>2
    <3> QED
      BY <1>1, <3>1
  <2> QED
    BY <2>1, <2>2
<1> QED
  BY <1>2 DEF FullAt

\* Which packet of its request an answer is for.
LEMMA OpIs ==
  ASSUME NEW R \in Seq(KindSet), NEW S, NEW r, NEW o, NEW d, Place(r, o, d, R, S), NEW op, op = OpOf(R[r], o)
  PROVE  /\ op \in OpSet /\ op # "NAK" /\ op # "NONE"
         /\ op # "ACK" <=> R[r] = "READ"
         /\ op \in {"RESP_FIRST", "RESP_ONLY"} <=> R[r] = "READ" /\ o = 0
         /\ op \in {"RESP_FIRST", "RESP_MIDDLE"} => R[r] = "READ" /\ o < Pkgs(R[r]) - 1
         /\ op \notin {"RESP_FIRST", "RESP_MIDDLE"} => o = Pkgs(R[r]) - 1
<1>1. ReadPkgs \in Nat /\ ReadPkgs >= 1
  BY Modulus
<1>2. r \in 1 .. Len(R) /\ o \in 0 .. Pkgs(R[r]) - 1
  BY DEF Place
<1>3. CASE R[r] = "READ"
  <2>1. Pkgs(R[r]) = ReadPkgs /\ op = RespOp(o)
    BY <1>3 DEF Pkgs, OpOf
  <2> QED
    BY <1>1, <1>2, <1>3, <2>1 DEF RespOp, OpSet
<1>4. CASE R[r] # "READ"
  <2>1. Pkgs(R[r]) = 1 /\ op = "ACK"
    BY <1>4 DEF Pkgs, OpOf
  <2> QED
    BY <1>1, <1>2, <1>4, <2>1 DEF OpSet
<1> QED
  BY <1>3, <1>4

\* The types of what the parts of Flow speak of.
LEMMA FlowTypes ==
  ASSUME RoceInv
  PROVE  /\ reqs \in Seq(KindSet) /\ psnOf \in Seq(Psn) /\ next \in Psn /\ InPhase(reqs, psnOf, next)
         /\ fwd \in Seq(Event) /\ bexh \in Seq(Event) /\ ackq \in Seq(Event) /\ readq \in Seq(Event)
         /\ back \in Seq(Event) /\ aexh \in Seq(Event) /\ insq \in Seq(Event)
         /\ unack \in Psn /\ epsn \in Psn /\ arx \in {None} \cup Loaded
         /\ Len(fwd) \in Nat /\ Len(bexh) \in Nat /\ Len(ackq) \in Nat /\ Len(readq) \in Nat
         /\ Len(back) \in Nat /\ Len(aexh) \in Nat /\ Len(insq) \in Nat /\ Len(reqs) \in Nat
         /\ Distance(unack) \in Nat /\ faults \in Nat /\ late \in Nat
<1>1. TxTypes /\ RtTypes /\ TmTypes /\ RxTypes /\ RspTypes /\ NetTypes /\ InPhase(reqs, psnOf, next)
  BY DEF RoceInv, Types
<1>2. /\ reqs \in Seq(KindSet) /\ psnOf \in Seq(Psn) /\ next \in Psn
      /\ fwd \in Seq(Event) /\ bexh \in Seq(Event) /\ ackq \in Seq(Event) /\ readq \in Seq(Event)
      /\ back \in Seq(Event) /\ aexh \in Seq(Event) /\ insq \in Seq(Event)
      /\ unack \in Psn /\ epsn \in Psn /\ arx \in {None} \cup Loaded
  BY <1>1 DEF TxTypes, RtTypes, RxTypes, RspTypes, NetTypes
<1>3. faults \in Nat /\ late \in Nat
  BY <1>1, RoceAssumption DEF TmTypes, NetTypes
<1> QED
  BY <1>1, <1>2, <1>3, DistanceIs

\* How far things have come.
LEMMA Numbers ==
  ASSUME RoceInv, Outbound
  PROVE  /\ Asked \in 0 .. Len(reqs) /\ Run \in 0 .. Len(reqs) /\ Run <= Asked
         /\ Start(Run, psnOf, next) \in Nat /\ Said \in Int /\ Stored \in Int
<1>1. Asked \in 0 .. Len(reqs) /\ Run \in 0 .. Len(reqs) /\ Run <= Asked
  BY FlowTypes DEF Outbound, Asked, Run
<1>2. Start(Run, psnOf, next) \in Nat
  BY <1>1, FlowTypes, StartIs
<1> QED
  BY <1>1, <1>2, FlowTypes DEF Said, Stored

\* Answers of both kinds do not come together.
LEMMA OneKind ==
  ASSUME RoceInv, Undisturbed, NEW p, NEW d, Resp(p, d, reqs, psnOf)
  PROVE  /\ p.op \in OpSet /\ p.op # "NAK" /\ p.op # "NONE"
         /\ p.op = "ACK" => \A i \in 1 .. Len(reqs) : reqs[i] # "READ"
         /\ p.op # "ACK" => \A i \in 1 .. Len(reqs) : reqs[i] = "READ"
         /\ Len(reqs) > 0
<1>0. reqs \in Seq(KindSet) /\ Len(reqs) \in Nat
  BY FlowTypes
<1>1. PICK r, o : Place(r, o, d, reqs, psnOf) /\ p.op = OpOf(reqs[r], o)
  BY DEF Resp
<1>2. p.op \in OpSet /\ p.op # "NAK" /\ p.op # "NONE" /\ (p.op # "ACK" <=> reqs[r] = "READ")
  BY <1>0, <1>1, OpIs
<1>3. r \in 1 .. Len(reqs)
  BY <1>1 DEF Place
<1> QED
  BY <1>0, <1>2, <1>3 DEF Undisturbed

LEMMA RxLoadFlows ==
  ASSUME RoceInv, Undisturbed, Flow, RxLoad
  PROVE  Flow'
<1>0. Quiet /\ Outbound /\ Inbound /\ Listed /\ Reading /\ Writing
  BY DEF Flow
<1>1. /\ UNCHANGED <<txVars, rtVars, tmVars, rspVars, fwd, faults, unack, aexh, adma, landed>>
      /\ arx = None /\ back # <<>> /\ back' = Tail(back)
      /\ arx' = [pkt |-> Head(back), epsn |-> unack, maxf |-> Plus(next, -1)]
  BY DEF RxLoad
<1>2. Quiet' /\ Outbound' /\ Listed' /\ Reading' /\ Writing'
  <2>1. Updated' = Updated /\ Stored' = Stored /\ Asked' = Asked /\ Run' = Run
    BY <1>1 DEF Updated, Stored, Asked, Run, txVars, rtVars, rspVars
  <2>2. Quiet' /\ Outbound' /\ Writing'
    BY <1>0, <1>1, <2>1 DEF Quiet, Outbound, Writing, txVars, rtVars, tmVars, rspVars
  <2>3. Listed' /\ Reading'
    BY <1>0, <1>1, <2>1 DEF Listed, Reading, txVars, rtVars, tmVars, rspVars
  <2> QED
    BY <2>2, <2>3
<1>3. Inbound'
  <2>1. Said' = Said /\ Said \in Int /\ Len(back) \in Nat /\ back \in Seq(Event)
    BY <1>0, <1>1, Numbers, FlowTypes DEF Said, Run, Asked, txVars, rspVars
  <2>2. Len(back') = Len(back) - 1
    BY <1>1, <2>1
  <2>3. Resp(Head(back), Said - Len(back), reqs, psnOf) /\ RespAt(Tail(back), Said - Len(back) + 1, reqs, psnOf)
    BY <1>0, <1>1, <2>1, RespTaken DEF Inbound
  <2>4. Said - Len(back) + 1 = Said' - Len(back') /\ Said - Len(back) = Said' - Len(back') - 1
    BY <2>1, <2>2
  <2>5. Distance(unack) = Said - Len(back)
    BY <1>0, <1>1 DEF Inbound
  <2>6. arx' # None
    BY <1>1 DEF None
  <2>7. arx'.pkt = Head(back) /\ arx'.epsn = unack
    BY <1>1
  <2>8. /\ ackq' = ackq /\ readq' = readq /\ reqs' = reqs /\ psnOf' = psnOf /\ unack' = unack
    BY <1>1 DEF txVars, rspVars
  <2>9. Distance(unack') = Said' - Len(back') - 1 /\ Resp(arx'.pkt, Distance(unack'), reqs', psnOf')
    BY <2>3, <2>4, <2>5, <2>7, <2>8
  <2>10. RespAt(back', Said' - Len(back'), reqs', psnOf')
    BY <1>1, <2>3, <2>4, <2>8
  <2> QED
    BY <1>0, <2>1, <2>6, <2>7, <2>8, <2>9, <2>10 DEF Inbound
<1> QED
  BY <1>2, <1>3 DEF Flow

\* What a part of Flow does not speak of.
LEMMA RequesterFrame ==
  ASSUME Quiet, Listed, Reading, UNCHANGED <<txVars, rtVars, tmVars, rxVars>>
  PROVE  Quiet' /\ Listed' /\ Reading'
<1>1. Updated' = Updated /\ Stored' = Stored
  BY DEF Updated, Stored, txVars, rtVars, rxVars
<1> QED
  BY <1>1 DEF Quiet, Listed, Reading, txVars, rtVars, tmVars, rxVars

LEMMA ResponderFrame ==
  ASSUME Outbound, Writing, UNCHANGED <<txVars, rspVars, fwd>>
  PROVE  Outbound' /\ Writing' /\ Said' = Said /\ Run' = Run
<1>1. Asked' = Asked /\ Run' = Run
  BY DEF Asked, Run, txVars, rspVars
<1> QED
  BY <1>1 DEF Outbound, Writing, Said, txVars, rspVars

LEMMA InboundFrame ==
  ASSUME Inbound, UNCHANGED <<txVars, rspVars, fwd, back, unack, arx>>
  PROVE  Inbound'
<1>1. Said' = Said
  BY DEF Said, Asked, Run, txVars, rspVars
<1> QED
  BY <1>1 DEF Inbound, txVars, rspVars

LEMMA RespNone ==
  ASSUME NEW d, NEW R, NEW S
  PROVE  RespAt(<<>>, d, R, S)
BY DEF RespAt

LEMMA RespSendFlows ==
  ASSUME RoceInv, Undisturbed, Flow, RespSend
  PROVE  Flow'
<1>0. Quiet /\ Outbound /\ Inbound /\ Listed /\ Reading /\ Writing
  BY DEF Flow
<1>1. /\ UNCHANGED <<txVars, rtVars, tmVars, rxVars>> /\ UNCHANGED <<epsn, nakOk, bexh, bdma, written, fwd, faults>>
      /\ \/ ackq # <<>> /\ back' = Append(back, Head(ackq)) /\ ackq' = Tail(ackq) /\ readq' = readq
         \/ ackq = <<>> /\ readq # <<>> /\ back' = Append(back, Head(readq)) /\ readq' = Tail(readq) /\ ackq' = ackq
  BY DEF RespSend
<1>2. Quiet' /\ Listed' /\ Reading'
  BY <1>0, <1>1, RequesterFrame
<1>3. Asked' = Asked /\ Run' = Run /\ reqs' = reqs /\ psnOf' = psnOf /\ next' = next /\ unack' = unack /\ arx' = arx
  BY <1>1 DEF Asked, Run, txVars, rxVars
<1>4. Outbound' /\ Writing'
  BY <1>0, <1>1, <1>3 DEF Outbound, Writing
<1>5. /\ ackq \in Seq(Event) /\ readq \in Seq(Event) /\ back \in Seq(Event) /\ Len(ackq) \in Nat /\ Len(readq) \in Nat
      /\ Len(back) \in Nat /\ Said \in Int /\ Start(Run, psnOf, next) \in Nat
  BY <1>0, FlowTypes, Numbers
<1>6. /\ ackq = <<>> \/ readq = <<>>
      /\ \A k \in 1 .. Len(ackq) : ackq[k].op = "ACK"
      /\ \A k \in 1 .. Len(readq) : readq[k].op # "ACK"
      /\ RespAt(ackq, Said, reqs, psnOf) /\ RespAt(readq, Said, reqs, psnOf)
      /\ RespAt(back, Said - Len(back), reqs, psnOf)
  BY <1>0 DEF Inbound
<1>7. ASSUME NEW s \in Seq(Event), s # <<>>, RespAt(s, Said, reqs, psnOf), NEW b, b = Append(back, Head(s))
      PROVE  /\ b \in Seq(Event) /\ Len(b) = Len(back) + 1 /\ Len(Tail(s)) = Len(s) - 1
             /\ RespAt(Tail(s), Said + 1, reqs, psnOf) /\ RespAt(b, Said - Len(back), reqs, psnOf)
             /\ \A k \in 1 .. Len(Tail(s)) : k + 1 \in 1 .. Len(s) /\ Tail(s)[k] = s[k + 1]
  <2>1. Resp(Head(s), Said, reqs, psnOf) /\ RespAt(Tail(s), Said + 1, reqs, psnOf)
    BY <1>5, <1>7, RespTaken
  <2>2. /\ Head(s) \in Event /\ Len(Tail(s)) = Len(s) - 1 /\ Len(s) \in Nat
        /\ \A i \in 1 .. Len(s) - 1 : Tail(s)[i] = s[i + 1]
    BY <1>7, Tailed
  <2> DEFINE d == Said - Len(back)
  <2>3. d \in Int /\ d + Len(back) = Said
    BY <1>5
  <2>4. RespAt(back, d, reqs, psnOf) /\ Resp(Head(s), d + Len(back), reqs, psnOf)
    BY <1>6, <2>1, <2>3
  <2> HIDE DEF d
  <2>5. RespAt(Append(back, Head(s)), d, reqs, psnOf)
    BY <1>5, <2>2, <2>3, <2>4, RespAdded
  <2>6. b \in Seq(Event) /\ Len(b) = Len(back) + 1
    BY <1>5, <1>7, <2>2, Appended
  <2>7. \A k \in 1 .. Len(Tail(s)) : k + 1 \in 1 .. Len(s) /\ Tail(s)[k] = s[k + 1]
    BY <2>2
  <2> QED
    BY <1>7, <2>1, <2>2, <2>5, <2>6, <2>7 DEF d
<1>8. ASSUME ackq # <<>> PROVE Inbound'
  <2>1. readq = <<>> /\ readq' = <<>> /\ back' = Append(back, Head(ackq)) /\ ackq' = Tail(ackq)
    BY <1>1, <1>6, <1>8
  <2>2. /\ Len(back') = Len(back) + 1 /\ Len(ackq') = Len(ackq) - 1
        /\ RespAt(ackq', Said + 1, reqs, psnOf) /\ RespAt(back', Said - Len(back), reqs, psnOf)
        /\ \A k \in 1 .. Len(ackq') : k + 1 \in 1 .. Len(ackq) /\ ackq'[k] = ackq[k + 1]
    BY <1>5, <1>6, <1>7, <1>8, <2>1
  <2>5. \A k \in 1 .. Len(ackq') : ackq'[k].op = "ACK"
    BY <1>6, <2>2
  <2>3. Said' = Said + 1
    BY <1>3, <1>5, <2>1, <2>2 DEF Said
  <2>4. Said' - Len(back') = Said - Len(back)
    BY <1>5, <2>2, <2>3
  <2>6. RespAt(ackq', Said', reqs', psnOf') /\ RespAt(readq', Said', reqs', psnOf')
        /\ RespAt(back', Said' - Len(back'), reqs', psnOf')
    BY <1>3, <2>1, <2>2, <2>3, <2>4, RespNone
  <2>7. \A k \in 1 .. Len(readq') : readq'[k].op # "ACK"
    BY <2>1
  <2>8. /\ arx' = None => Distance(unack') = Said' - Len(back')
        /\ arx' # None => /\ Distance(unack') = Said' - Len(back') - 1 /\ arx'.epsn = unack'
                         /\ Resp(arx'.pkt, Distance(unack'), reqs', psnOf')
    BY <1>0, <1>3, <2>4 DEF Inbound
  <2> QED
    BY <2>1, <2>2, <2>5, <2>6, <2>7, <2>8 DEF Inbound
<1>9. ASSUME ackq = <<>> PROVE Inbound'
  <2>1. ackq' = <<>> /\ readq # <<>> /\ back' = Append(back, Head(readq)) /\ readq' = Tail(readq)
    BY <1>1, <1>9
  <2>2. /\ Len(back') = Len(back) + 1 /\ Len(readq') = Len(readq) - 1
        /\ RespAt(readq', Said + 1, reqs, psnOf) /\ RespAt(back', Said - Len(back), reqs, psnOf)
        /\ \A k \in 1 .. Len(readq') : readq'[k].op # "ACK"
    BY <1>5, <1>6, <1>7, <2>1
  <2>3. Said' = Said + 1
    BY <1>3, <1>5, <1>9, <2>1, <2>2 DEF Said
  <2>4. Said' - Len(back') = Said - Len(back)
    BY <1>5, <2>2, <2>3
  <2>6. RespAt(ackq', Said', reqs', psnOf') /\ RespAt(readq', Said', reqs', psnOf')
        /\ RespAt(back', Said' - Len(back'), reqs', psnOf')
    BY <1>3, <2>1, <2>2, <2>3, <2>4, RespNone
  <2>7. \A k \in 1 .. Len(ackq') : ackq'[k].op = "ACK"
    BY <2>1
  <2>8. /\ arx' = None => Distance(unack') = Said' - Len(back')
        /\ arx' # None => /\ Distance(unack') = Said' - Len(back') - 1 /\ arx'.epsn = unack'
                         /\ Resp(arx'.pkt, Distance(unack'), reqs', psnOf')
    BY <1>0, <1>3, <2>4 DEF Inbound
  <2> QED
    BY <2>1, <2>2, <2>6, <2>7, <2>8 DEF Inbound
<1> QED
  BY <1>2, <1>4, <1>8, <1>9 DEF Flow

\* The packet that comes next is the one expected.
LEMMA HeadExpected ==
  ASSUME RoceInv, Outbound, fwd # <<>>
  PROVE  /\ Head(fwd) = Full(Asked + 1, reqs, psnOf) /\ Asked + 1 \in 1 .. Len(reqs)
         /\ Head(fwd) \in Event /\ Head(fwd).psn = epsn
         /\ FullAt(Tail(fwd), Asked + 1, reqs, psnOf)
<1>1. /\ fwd \in Seq(Event) /\ epsn \in Psn /\ reqs \in Seq(KindSet) /\ psnOf \in Seq(Psn) /\ next \in Psn
      /\ InPhase(reqs, psnOf, next)
  BY FlowTypes
<1>2. Asked \in Int /\ FullAt(fwd, Asked, reqs, psnOf) /\ Distance(epsn) = Start(Asked, psnOf, next)
  BY Numbers DEF Outbound
<1>3. Head(fwd) = Full(Asked + 1, reqs, psnOf) /\ Asked + 1 \in 1 .. Len(reqs) /\ FullAt(Tail(fwd), Asked + 1, reqs, psnOf)
  BY <1>1, <1>2, FullTaken
<1>4. Head(fwd) \in Event
  BY <1>1, Tailed
<1>5. Head(fwd).psn = psnOf[Asked + 1]
  BY <1>3 DEF Full
<1>6. Len(psnOf) = Len(reqs) /\ \A i \in 1 .. Len(reqs) : Distance(psnOf[i]) = Start(i - 1, psnOf, next)
  BY <1>1, StartIs
<1>7. psnOf[Asked + 1] \in Psn /\ (Asked + 1) - 1 = Asked
  BY <1>1, <1>2, <1>3, <1>6
<1>8. psnOf[Asked + 1] = epsn
  <2>1. Distance(psnOf[Asked + 1]) = Start((Asked + 1) - 1, psnOf, next)
    BY <1>3, <1>6
  <2>2. Distance(psnOf[Asked + 1]) = Distance(epsn)
    BY <1>2, <1>7, <2>1
  <2> QED
    BY <1>1, <1>7, <2>2, SameDistance
<1> QED
  BY <1>3, <1>4, <1>5, <1>8

LEMMA RespExpectedFlows ==
  ASSUME RoceInv, Undisturbed, Flow, RespExpected
  PROVE  Flow'
<1>0. Quiet /\ Outbound /\ Inbound /\ Listed /\ Reading /\ Writing
  BY DEF Flow
<1>1. /\ UNCHANGED <<txVars, rtVars, tmVars, rxVars>> /\ UNCHANGED <<bdma, ackq, readq, written, back>>
      /\ fwd # <<>> /\ bexh' = Append(bexh, Head(fwd)) /\ epsn' = Plus(epsn, NumPkg(Head(fwd)))
      /\ fwd' = Tail(fwd)
  BY DEF RespExpected
<1>2. Quiet' /\ Listed' /\ Reading'
  BY <1>0, <1>1, RequesterFrame
<1>3. reqs' = reqs /\ psnOf' = psnOf /\ next' = next /\ unack' = unack /\ arx' = arx
  BY <1>1 DEF txVars, rxVars
<1>4. /\ reqs \in Seq(KindSet) /\ psnOf \in Seq(Psn) /\ next \in Psn /\ InPhase(reqs, psnOf, next)
      /\ fwd \in Seq(Event) /\ bexh \in Seq(Event) /\ epsn \in Psn /\ Len(fwd) \in Nat /\ Len(bexh) \in Nat
      /\ Len(reqs) \in Nat
  BY FlowTypes
<1>5. /\ Head(fwd) = Full(Asked + 1, reqs, psnOf) /\ Asked + 1 \in 1 .. Len(reqs)
      /\ Head(fwd) \in Event /\ FullAt(Tail(fwd), Asked + 1, reqs, psnOf)
  BY <1>0, <1>1, HeadExpected
<1>6. Len(fwd') = Len(fwd) - 1 /\ Len(bexh') = Len(bexh) + 1
  BY <1>1, <1>4, <1>5, Tailed, Appended
<1>7. Asked \in 0 .. Len(reqs) /\ Run \in 0 .. Len(reqs) /\ Run + Len(bexh) = Asked
  BY <1>0, <1>4, Numbers DEF Run
<1>8. Asked' = Asked + 1
  BY <1>3, <1>4, <1>6 DEF Asked
<1>9. Run' = Run
  BY <1>4, <1>6, <1>7, <1>8 DEF Run
<1>10. FullAt(bexh', Run, reqs, psnOf)
  <2>1. Run + Len(bexh) + 1 = Asked + 1 /\ Run \in Int
    <3>1. Asked \in Int /\ Run = Asked - Len(bexh) /\ Len(bexh) \in Int /\ Run \in Int
      BY <1>4, <1>7 DEF Run
    <3> QED
      BY ONLY <3>1
  <2>2. FullAt(bexh, Run, reqs, psnOf)
    BY <1>0 DEF Outbound
  <2> QED
    BY <1>1, <1>4, <1>5, <2>1, <2>2, FullAdded
<1>11. Distance(epsn') = Start(Asked + 1, psnOf, next)
  <2>1. NumPkg(Head(fwd)) = Pkgs(reqs[Asked + 1]) /\ Pkgs(reqs[Asked + 1]) \in Nat
    BY <1>5, PkgsIs DEF NumPkg, Full, Pkgs
  <2>2. Asked \in 0 .. Len(reqs) - 1 /\ Asked + 1 \in 0 .. Len(reqs)
    BY <1>4, <1>5, <1>7
  <2>3. /\ Start(Asked + 1, psnOf, next) = Start(Asked, psnOf, next) + Pkgs(reqs[Asked + 1])
        /\ Start(Asked + 1, psnOf, next) <= Distance(next) /\ Start(Asked + 1, psnOf, next) \in Nat
    BY <1>4, <2>2, StartIs
  <2>4. Distance(epsn) = Start(Asked, psnOf, next)
    BY <1>0 DEF Outbound
  <2>5. Distance(next) < PsnMod /\ Distance(next) \in Nat /\ PsnMod \in Nat
    BY <1>4, DistanceIs, Modulus
  <2>6. Distance(epsn) + Pkgs(reqs[Asked + 1]) < PsnMod
    BY <2>3, <2>4, <2>5
  <2>7. Distance(Plus(epsn, Pkgs(reqs[Asked + 1]))) = Distance(epsn) + Pkgs(reqs[Asked + 1])
    BY <1>4, <2>1, <2>6, Onward
  <2> QED
    BY <1>1, <2>1, <2>3, <2>4, <2>7
<1>12. Outbound'
  <2>1. FullAt(fwd', Asked', reqs', psnOf') /\ FullAt(bexh', Run', reqs', psnOf')
    BY <1>1, <1>3, <1>5, <1>8, <1>9, <1>10
  <2>2. Distance(epsn') = Start(Asked', psnOf', next') /\ 0 <= Run'
    BY <1>0, <1>3, <1>8, <1>9, <1>11 DEF Outbound
  <2> QED
    BY <2>1, <2>2 DEF Outbound
<1>13. Said' = Said
  BY <1>1, <1>3, <1>9 DEF Said
<1>14. Inbound' /\ Writing'
  BY <1>0, <1>1, <1>3, <1>9, <1>13 DEF Inbound, Writing
<1> QED
  BY <1>2, <1>12, <1>14 DEF Flow

\* What handle_read_requests answers to a whole read.
LEMMA ReadEventsAt ==
  ASSUME NEW R \in Seq(KindSet), NEW S \in Seq(Psn), NEW n \in Psn, InPhase(R, S, n),
         NEW r \in 1 .. Len(R), R[r] = "READ", NEW p \in Event, p = Full(r, R, S)
  PROVE  /\ ReadEvents(p) \in Seq(Event) /\ Len(ReadEvents(p)) = ReadPkgs
         /\ RespAt(ReadEvents(p), Start(r - 1, S, n), R, S)
         /\ \A i \in 1 .. ReadPkgs : ReadEvents(p)[i].op # "ACK"
<1>1. ReadPkgs \in Nat /\ ReadPkgs >= 1 /\ Pkgs(R[r]) = ReadPkgs
  BY Modulus DEF Pkgs
<1>2. p.op = "READ" /\ p.req = r /\ p.off = 0 /\ p.len = ReadPkgs /\ p.psn = S[r]
  BY <1>1 DEF Full
<1>3. /\ Len(R) \in Nat /\ Len(S) = Len(R) /\ r - 1 \in 0 .. Len(R) - 1
      /\ Distance(S[r]) = Start(r - 1, S, n) /\ Start(r - 1, S, n) \in Nat
  BY StartIs
<1>4. S[r] \in Psn
  BY <1>3
<1>5. Start(r - 1, S, n) + ReadPkgs < PsnMod
  <2>1. Distance(S[r]) + Pkgs(R[r]) <= Distance(n)
    BY DEF InPhase
  <2>2. Distance(n) \in Nat /\ Distance(n) < PsnMod /\ PsnMod \in Nat
    BY DistanceIs, Modulus
  <2> QED
    BY <1>1, <1>3, <2>1, <2>2
<1>6. ReadEvents(p) \in Seq(Event)
  BY ReadEventsTyped
<1>7. DOMAIN ReadEvents(p) = 1 .. ReadPkgs
  BY <1>2 DEF ReadEvents
<1>8. Len(ReadEvents(p)) = ReadPkgs
  BY <1>1, <1>6, <1>7
<1>9. ASSUME NEW i \in 1 .. ReadPkgs
      PROVE  Resp(ReadEvents(p)[i], Start(r - 1, S, n) + i - 1, R, S) /\ ReadEvents(p)[i].op # "ACK"
  <2> DEFINE a == ReadEvents(p)[i]
  <2>1. i \in Nat /\ i >= 1 /\ i - 1 \in Nat /\ i - 1 \in 0 .. Pkgs(R[r]) - 1 /\ 0 + i - 1 = i - 1
    BY <1>1
  <2>2. a.req = r /\ a.off = i - 1 /\ a.psn = Plus(S[r], i - 1)
    BY <1>2, <2>1 DEF ReadEvents, Event
  <2>3. a.op = RespOp(i - 1)
    <3>1. a.op = CASE p.len = 1 -> "RESP_ONLY"
                   [] p.len > 1 /\ i = 1 -> "RESP_FIRST"
                   [] p.len > 1 /\ i = p.len -> "RESP_LAST"
                   [] OTHER -> "RESP_MIDDLE"
      BY <1>2 DEF ReadEvents, Event
    <3> HIDE DEF a
    <3> QED
      BY <3>1, <1>1, <1>2, <2>1 DEF RespOp
  <2>4. Plus(S[r], i - 1) \in Psn /\ Distance(Plus(S[r], i - 1)) = Start(r - 1, S, n) + (i - 1)
    <3>1. Distance(S[r]) + (i - 1) < PsnMod
      BY <1>1, <1>3, <1>5, <2>1, Modulus
    <3> QED
      BY <1>3, <1>4, <2>1, <3>1, Onward
  <2>5. Start(r - 1, S, n) + (i - 1) = Start(r - 1, S, n) + i - 1
    BY <1>3, <2>1
  <2>6. Place(r, i - 1, Start(r - 1, S, n) + i - 1, R, S)
    BY <1>3, <2>1, <2>5 DEF Place
  <2>7. RespOp(i - 1) # "ACK" /\ OpOf(R[r], i - 1) = RespOp(i - 1)
    BY DEF RespOp, OpOf
  <2> HIDE DEF a
  <2>8. Resp(a, Start(r - 1, S, n) + i - 1, R, S) /\ a.op # "ACK"
    BY <2>2, <2>3, <2>4, <2>5, <2>6, <2>7 DEF Resp
  <2> QED
    BY <2>8 DEF a
<1> QED
  BY <1>6, <1>8, <1>9 DEF RespAt

LEMMA RespJoined ==
  ASSUME NEW s \in Seq(Event), NEW t \in Seq(Event), NEW d \in Int, NEW R, NEW S,
         RespAt(s, d, R, S), RespAt(t, d + Len(s), R, S)
  PROVE  /\ RespAt(s \o t, d, R, S) /\ Len(s \o t) = Len(s) + Len(t)
         /\ \A i \in 1 .. Len(s \o t) : \/ i \in 1 .. Len(s) /\ (s \o t)[i] = s[i]
                                        \/ i - Len(s) \in 1 .. Len(t) /\ (s \o t)[i] = t[i - Len(s)]
<1>1. s \o t \in Seq(Event) /\ Len(s \o t) = Len(s) + Len(t) /\ Len(s) \in Nat /\ Len(t) \in Nat
  OBVIOUS
<1>2. \A i \in 1 .. Len(s) + Len(t) : (s \o t)[i] = IF i <= Len(s) THEN s[i] ELSE t[i - Len(s)]
  OBVIOUS
<1>3. \A i \in 1 .. Len(s \o t) : \/ i \in 1 .. Len(s) /\ (s \o t)[i] = s[i]
                                  \/ i - Len(s) \in 1 .. Len(t) /\ (s \o t)[i] = t[i - Len(s)]
  BY <1>1, <1>2
<1>4. ASSUME NEW i \in 1 .. Len(s \o t) PROVE Resp((s \o t)[i], d + i - 1, R, S)
  <2>1. CASE i \in 1 .. Len(s) /\ (s \o t)[i] = s[i]
    BY <2>1 DEF RespAt
  <2>2. CASE i - Len(s) \in 1 .. Len(t) /\ (s \o t)[i] = t[i - Len(s)]
    <3>1. d + Len(s) + (i - Len(s)) - 1 = d + i - 1
      BY <1>1
    <3>2. Resp(t[i - Len(s)], d + Len(s) + (i - Len(s)) - 1, R, S)
      BY <2>2 DEF RespAt
    <3> QED
      BY <2>2, <3>1, <3>2
  <2> QED
    BY <1>3, <2>1, <2>2
<1> QED
  BY <1>1, <1>3, <1>4 DEF RespAt

\* The answers of the other kind are gone before one comes.
LEMMA AnswerKind ==
  ASSUME RoceInv, Undisturbed, Inbound, NEW r \in 1 .. Len(reqs)
  PROVE  /\ reqs[r] = "READ" => ackq = <<>>
         /\ reqs[r] # "READ" => readq = <<>>
<1>1. ackq \in Seq(Event) /\ readq \in Seq(Event)
  BY FlowTypes
<1>2. ASSUME ackq # <<>> PROVE reqs[r] # "READ"
  <2>1. 1 \in 1 .. Len(ackq)
    BY <1>1, <1>2
  <2>2. ackq[1].op = "ACK" /\ Resp(ackq[1], Said + 1 - 1, reqs, psnOf)
    BY <2>1 DEF Inbound, RespAt
  <2> QED
    BY <2>2, OneKind
<1>3. ASSUME readq # <<>> PROVE reqs[r] = "READ"
  <2>1. 1 \in 1 .. Len(readq)
    BY <1>1, <1>3
  <2>2. readq[1].op # "ACK" /\ Resp(readq[1], Said + 1 - 1, reqs, psnOf)
    BY <2>1 DEF Inbound, RespAt
  <2> QED
    BY <2>2, OneKind
<1> QED
  BY <1>2, <1>3

LEMMA RespExhFlows ==
  ASSUME RoceInv, Undisturbed, Flow, RespExh
  PROVE  Flow'
<1>0. Quiet /\ Outbound /\ Inbound /\ Listed /\ Reading /\ Writing
  BY DEF Flow
<1> DEFINE p == Head(bexh)
           r == Run + 1
           at == IF p.op = "LAST" THEN bdma ELSE p.req
<1>1. /\ UNCHANGED <<txVars, rtVars, tmVars, rxVars>> /\ epsn' = epsn /\ fwd' = fwd /\ back' = back
      /\ bexh # <<>> /\ bexh' = Tail(bexh)
      /\ \/ /\ p.op # "READ" /\ written' = Append(written, [at |-> at, data |-> p.req])
            /\ bdma' = NextVaddr(p, at) /\ ackq' = Append(ackq, Answer("ACK", p.psn)) /\ readq' = readq
         \/ /\ p.op = "READ" /\ readq' = readq \o ReadEvents(p) /\ ackq' = ackq /\ written' = written
  BY DEF RespExh, netVars
<1>2. Quiet' /\ Listed' /\ Reading'
  BY <1>0, <1>1, RequesterFrame
<1>3. reqs' = reqs /\ psnOf' = psnOf /\ next' = next /\ unack' = unack /\ arx' = arx
  BY <1>1 DEF txVars, rxVars
<1>4. /\ reqs \in Seq(KindSet) /\ psnOf \in Seq(Psn) /\ next \in Psn /\ InPhase(reqs, psnOf, next)
      /\ bexh \in Seq(Event) /\ ackq \in Seq(Event) /\ readq \in Seq(Event)
      /\ Len(bexh) \in Nat /\ Len(ackq) \in Nat /\ Len(readq) \in Nat /\ Len(reqs) \in Nat
  BY FlowTypes
<1>5. Run \in 0 .. Len(reqs) /\ Start(Run, psnOf, next) \in Nat /\ Said \in Int /\ Asked \in Int
  BY <1>0, Numbers
<1>6. r \in 1 .. Len(reqs) /\ p = Full(r, reqs, psnOf) /\ FullAt(bexh', r, reqs, psnOf)
  <2>1. FullAt(bexh, Run, reqs, psnOf) /\ Run \in Int
    BY <1>0, <1>5 DEF Outbound
  <2> QED
    BY <1>1, <1>4, <2>1, FullTaken
<1>7. p \in Event /\ Len(bexh') = Len(bexh) - 1
  BY <1>1, <1>4, Tailed
<1>8. p.op = reqs[r] /\ p.req = r /\ p.psn = psnOf[r]
  BY <1>6 DEF Full
<1>9. Asked' = Asked /\ Run' = Run + 1
  <2>1. Asked' = Asked
    BY <1>1, <1>3 DEF Asked
  <2>2. Run = Asked - Len(bexh) /\ Run' = Asked - Len(bexh') /\ Asked \in Int /\ Len(bexh) \in Int
    BY <1>4, <1>5, <2>1 DEF Run
  <2> QED
    BY ONLY <1>7, <2>1, <2>2
<1> DEFINE A == Start(Run, psnOf, next)
<1>10. /\ Start(Run + 1, psnOf, next) = A + Pkgs(reqs[r])
       /\ Distance(psnOf[r]) = A /\ r - 1 = Run
  <2>1. Run \in 0 .. Len(reqs) - 1 /\ r - 1 = Run
    BY <1>4, <1>5, <1>6
  <2>2. /\ \A x \in 0 .. Len(reqs) - 1 : Start(x + 1, psnOf, next) = Start(x, psnOf, next) + Pkgs(reqs[x + 1])
        /\ \A i \in 1 .. Len(reqs) : Distance(psnOf[i]) = Start(i - 1, psnOf, next)
    BY <1>4, StartIs
  <2>3. Distance(psnOf[r]) = Start(r - 1, psnOf, next)
    BY <1>6, <2>2
  <2> QED
    BY <2>1, <2>2, <2>3
<1>11. Outbound'
  <2>1. FullAt(fwd', Asked', reqs', psnOf') /\ Distance(epsn') = Start(Asked', psnOf', next')
    BY <1>0, <1>1, <1>3, <1>9 DEF Outbound
  <2>2. FullAt(bexh', Run', reqs', psnOf') /\ 0 <= Run'
    BY <1>3, <1>5, <1>6, <1>9
  <2> QED
    BY <2>1, <2>2 DEF Outbound
<1>12. psnOf[r] \in Psn
  <2>1. Len(psnOf) = Len(reqs)
    BY <1>4, StartIs
  <2> QED
    BY <1>4, <1>6, <2>1
<1>13. ASSUME p.op # "READ" PROVE Inbound'
  <2>1. /\ ackq' = Append(ackq, Answer("ACK", p.psn)) /\ readq' = <<>> /\ readq = <<>> /\ reqs[r] # "READ"
        /\ Pkgs(reqs[r]) = 1
    BY <1>0, <1>1, <1>6, <1>8, <1>13, AnswerKind DEF Pkgs
  <2> DEFINE a == Answer("ACK", p.psn)
  <2>2. a \in Event /\ a.op = "ACK" /\ a.psn = psnOf[r]
    BY <1>8, <1>12, AnswerIs DEF OpSet
  <2>3. Resp(a, A, reqs, psnOf)
    <3>1. Place(r, 0, A, reqs, psnOf)
      BY <1>5, <1>6, <1>10, <2>1 DEF Place
    <3>2. a.op = OpOf(reqs[r], 0)
      BY <2>1, <2>2 DEF OpOf
    <3> HIDE DEF a, A
    <3> QED
      BY <1>10, <1>12, <2>1, <2>2, <3>1, <3>2 DEF Resp
  <2> HIDE DEF a
  <2>4. Len(ackq') = Len(ackq) + 1 /\ (\A i \in 1 .. Len(ackq) : ackq'[i] = ackq[i]) /\ ackq'[Len(ackq) + 1] = a
    BY <1>4, <2>1, <2>2, Appended DEF a
  <2>5. Said = A - Len(ackq) - 0 /\ Said' = A + 1 - Len(ackq') - 0
    <3>1. Start(Run', psnOf', next') = A + 1
      BY <1>3, <1>9, <1>10, <2>1
    <3>2. Len(readq) = 0 /\ Len(readq') = 0
      BY <2>1
    <3>3. Said' = Start(Run', psnOf', next') - Len(ackq') - Len(readq') /\ Said = A - Len(ackq) - Len(readq)
      BY DEF Said
    <3>4. A \in Int /\ Len(ackq) \in Int /\ Len(ackq') \in Int
      BY <1>4, <1>5, <2>4
    <3> HIDE DEF A
    <3> QED
      BY ONLY <3>1, <3>2, <3>3, <3>4
  <2>6. Said' = Said /\ Said + Len(ackq) = A
    <3>1. A \in Int /\ Len(ackq) \in Int
      BY <1>4, <1>5
    <3> HIDE DEF A
    <3> QED
      BY ONLY <2>4, <2>5, <3>1
  <2>7. RespAt(ackq', Said, reqs, psnOf)
    <3>1. RespAt(ackq, Said, reqs, psnOf) /\ Resp(a, Said + Len(ackq), reqs, psnOf)
      BY <1>0, <2>3, <2>6 DEF Inbound
    <3> QED
      BY <1>4, <1>5, <2>1, <2>2, <3>1, RespAdded DEF a
  <2>8. \A k \in 1 .. Len(ackq') : ackq'[k].op = "ACK"
    <3>1. \A k \in 1 .. Len(ackq') : k \in 1 .. Len(ackq) \/ k = Len(ackq) + 1
      BY <1>4, <2>4
    <3>2. \A k \in 1 .. Len(ackq) : ackq[k].op = "ACK"
      BY <1>0 DEF Inbound
    <3> QED
      BY <2>2, <2>4, <3>1, <3>2
  <2>9. RespAt(readq', Said', reqs', psnOf') /\ \A k \in 1 .. Len(readq') : readq'[k].op # "ACK"
    BY <2>1, RespNone
  <2> QED
    BY <1>0, <1>1, <1>3, <2>1, <2>6, <2>7, <2>8, <2>9 DEF Inbound
<1>14. ASSUME p.op = "READ" PROVE Inbound'
  <2>1. /\ readq' = readq \o ReadEvents(p) /\ ackq' = <<>> /\ ackq = <<>> /\ reqs[r] = "READ"
        /\ Pkgs(reqs[r]) = ReadPkgs /\ ReadPkgs \in Nat
    BY <1>0, <1>1, <1>6, <1>8, <1>14, AnswerKind, Modulus DEF Pkgs
  <2> DEFINE t == ReadEvents(p)
  <2>2. /\ t \in Seq(Event) /\ Len(t) = ReadPkgs /\ RespAt(t, A, reqs, psnOf)
        /\ \A i \in 1 .. ReadPkgs : t[i].op # "ACK"
    <3>1. /\ ReadEvents(p) \in Seq(Event) /\ Len(ReadEvents(p)) = ReadPkgs
          /\ RespAt(ReadEvents(p), Start(r - 1, psnOf, next), reqs, psnOf)
          /\ \A i \in 1 .. ReadPkgs : ReadEvents(p)[i].op # "ACK"
      <4> HIDE DEF p, r
      <4> QED
        BY <1>4, <1>6, <1>7, <2>1, ReadEventsAt
    <3> QED
      BY <1>10, <3>1
  <2> HIDE DEF t
  <2>3. Said = A - 0 - Len(readq)
    BY <2>1 DEF Said
  <2>4. RespAt(readq, Said, reqs, psnOf) /\ RespAt(t, Said + Len(readq), reqs, psnOf)
    BY <1>0, <1>4, <1>5, <2>2, <2>3 DEF Inbound
  <2>5. readq' = readq \o t
    BY <2>1 DEF t
  <2>6. /\ RespAt(readq', Said, reqs, psnOf) /\ Len(readq') = Len(readq) + ReadPkgs
        /\ \A i \in 1 .. Len(readq') : \/ i \in 1 .. Len(readq) /\ readq'[i] = readq[i]
                                       \/ i - Len(readq) \in 1 .. ReadPkgs /\ readq'[i] = t[i - Len(readq)]
    BY <1>4, <1>5, <2>2, <2>4, <2>5, RespJoined
  <2>7. \A i \in 1 .. Len(readq') : readq'[i].op # "ACK"
    BY <1>0, <2>2, <2>6 DEF Inbound
  <2>8. Said' = A + ReadPkgs - 0 - Len(readq')
    <3>1. Start(Run', psnOf', next') = A + ReadPkgs
      BY <1>3, <1>9, <1>10, <2>1
    <3>2. Len(ackq') = 0
      BY <2>1
    <3>3. Said' = Start(Run', psnOf', next') - Len(ackq') - Len(readq')
      BY DEF Said
    <3>4. A \in Int /\ ReadPkgs \in Int /\ Len(readq') \in Int
      BY <1>4, <1>5, <2>1, <2>6
    <3> HIDE DEF A
    <3> QED
      BY ONLY <3>1, <3>2, <3>3, <3>4
  <2>9. Said' = Said
    <3>1. A \in Int /\ Len(readq) \in Int /\ ReadPkgs \in Int
      BY <1>4, <1>5, <2>1
    <3> HIDE DEF A
    <3> QED
      BY ONLY <2>3, <2>6, <2>8, <3>1
  <2>10. RespAt(ackq', Said', reqs', psnOf') /\ \A k \in 1 .. Len(ackq') : ackq'[k].op = "ACK"
    BY <2>1, RespNone
  <2> QED
    BY <1>0, <1>1, <1>3, <2>1, <2>6, <2>7, <2>9, <2>10 DEF Inbound
<1>15. Writing'
  <2>1. /\ \A i \in 1 .. Len(reqs) - 1 : reqs[i + 1] = "LAST" => reqs[i] = "FIRST"
        /\ Len(reqs) > 0 => reqs[1] # "LAST"
        /\ \A d \in Range(written) : d.at = d.data
        /\ Run > 0 /\ reqs[Run] = "FIRST" => bdma = Run + 1
    BY <1>0 DEF Writing, FirstLast
  <2>2. CASE p.op = "READ"
    <3>1. written' = written /\ reqs[Run + 1] = "READ"
      BY <1>1, <1>8, <2>2
    <3> QED
      BY <1>0, <1>3, <1>9, <3>1 DEF Writing
  <2>3. CASE p.op # "READ"
    <3>1. at = r
      <4>1. CASE p.op = "LAST"
        <5>1. Run # 0
          BY <1>4, <1>6, <1>8, <2>1, <4>1
        <5>2. Run \in 1 .. Len(reqs) - 1
          BY <1>4, <1>5, <1>6, <5>1
        <5>3. reqs[Run] = "FIRST" /\ Run > 0
          BY <1>8, <2>1, <4>1, <5>2
        <5> QED
          BY <2>1, <4>1, <5>3
      <4>2. CASE p.op # "LAST"
        BY <1>8, <4>2
      <4> QED
        BY <4>1, <4>2
    <3>2. written' = Append(written, [at |-> r, data |-> r]) /\ bdma' = NextVaddr(p, r)
      BY <1>1, <1>8, <2>3, <3>1
    <3>3. \A d \in Range(written') : d.at = d.data
      <4>1. written \in Seq(WriteRec) /\ [at |-> r, data |-> r] \in WriteRec
        BY <1>5 DEF RoceInv, Types, RspTypes, WriteRec
      <4>2. Range(written') = Range(written) \cup {[at |-> r, data |-> r]}
        BY <3>2, <4>1, Appended
      <4> QED
        BY <2>1, <4>2
    <3>4. reqs[Run + 1] = "FIRST" => bdma' = (Run + 1) + 1
      BY <1>8, <3>2 DEF NextVaddr, IsWrite
    <3> QED
      BY <1>0, <1>3, <1>9, <3>3, <3>4 DEF Writing
  <2> QED
    BY <2>2, <2>3
<1> QED
  BY <1>2, <1>11, <1>13, <1>14, <1>15 DEF Flow

LEMMA RxAcceptFlows ==
  ASSUME RoceInv, Undisturbed, Flow, RxAccept
  PROVE  Flow'
<1>0. Quiet /\ Outbound /\ Inbound /\ Listed /\ Reading /\ Writing
  BY DEF Flow
<1> DEFINE p == arx.pkt
           D == Distance(unack)
<1>1. /\ UNCHANGED <<adma, landed, insq, mtable, ptr, freeq, rt, nakq, rtev, rdinit, early, expired>>
      /\ UNCHANGED <<txVars, rspVars, fwd, back>>
      /\ arx # None /\ arx' = None
      /\ aexh' = IF p.op = "ACK" THEN aexh ELSE Append(aexh, p)
      /\ unack' = IF p.op # "NAK" /\ (p.op \in {"ACK", "NAK"} => InWindow(arx.epsn, p.psn, arx.maxf))
                  THEN Plus(p.psn, 1) ELSE unack
      /\ updq' = IF p.op # "NAK" THEN Append(updq, p.op) ELSE updq
  BY DEF RxAccept, netVars
<1>2. Outbound' /\ Writing' /\ Said' = Said
  BY <1>0, <1>1, ResponderFrame
<1>3. Quiet'
  BY <1>0, <1>1 DEF Quiet
<1>4. /\ reqs \in Seq(KindSet) /\ psnOf \in Seq(Psn) /\ next \in Psn /\ InPhase(reqs, psnOf, next)
      /\ aexh \in Seq(Event) /\ unack \in Psn /\ arx \in Loaded /\ D \in Nat /\ Len(aexh) \in Nat
      /\ Len(back) \in Nat /\ Len(reqs) \in Nat
  BY <1>1, FlowTypes
<1>5. p \in Event /\ arx.maxf \in Psn
  BY <1>4 DEF Loaded
<1>6. Resp(p, D, reqs, psnOf) /\ arx.epsn = unack /\ D = Said - Len(back) - 1 /\ Said \in Int
  BY <1>0, <1>1, Numbers DEF Inbound
<1>7. /\ p.op \in OpSet /\ p.op # "NAK" /\ p.op # "NONE"
      /\ p.op = "ACK" => \A i \in 1 .. Len(reqs) : reqs[i] # "READ"
      /\ p.op # "ACK" => \A i \in 1 .. Len(reqs) : reqs[i] = "READ"
      /\ Len(reqs) > 0
  BY <1>6, OneKind
<1>8. p.psn = unack
  <2>1. p.psn \in Psn /\ Distance(p.psn) = Distance(unack)
    BY <1>6 DEF Resp
  <2> QED
    BY <1>4, <2>1, SameDistance
<1>9. InWindow(unack, unack, arx.maxf)
  BY <1>4, <1>5 DEF InWindow, Psn
<1>10. unack' = Plus(unack, 1)
  BY <1>1, <1>6, <1>7, <1>8, <1>9
<1>11. PICK r, o : Place(r, o, D, reqs, psnOf) /\ p.op = OpOf(reqs[r], o)
  BY <1>6 DEF Resp
<1>12. Distance(unack') = D + 1 /\ unack' \in Psn
  <2>1. D < Distance(next)
    <3> HIDE DEF D
    <3> QED
      BY <1>4, <1>11, Placed
  <2>2. Distance(next) < PsnMod /\ Distance(next) \in Nat /\ PsnMod \in Nat
    BY <1>4, DistanceIs, Modulus
  <2>3. D + 1 < PsnMod
    BY <1>4, <2>1, <2>2
  <2> QED
    BY <1>4, <1>10, <2>3, Onward
<1>13. reqs' = reqs /\ psnOf' = psnOf /\ next' = next /\ ackq' = ackq /\ readq' = readq
  BY <1>1 DEF txVars, rspVars
<1>14. Inbound'
  <2>1. Distance(unack') = Said' - Len(back')
    <3> HIDE DEF D
    <3>1. D \in Int /\ Len(back) \in Int /\ Len(back') = Len(back)
      BY <1>1, <1>4
    <3> QED
      BY ONLY <1>2, <1>6, <1>12, <3>1
  <2> QED
    BY <1>0, <1>1, <1>2, <1>13, <2>1 DEF Inbound
<1>15. updq \in Seq(OpSet) /\ OpsAt(updq, Updated, reqs, psnOf) /\ Len(updq) \in Nat
  BY <1>0 DEF Listed
<1>16. updq' = Append(updq, p.op) /\ updq' \in Seq(OpSet) /\ Len(updq') = Len(updq) + 1
  BY <1>1, <1>7, <1>15, Appended
<1>17. Updated = D - Len(updq) /\ Updated' = Distance(unack') - Len(updq')
  BY DEF Updated
<1>18. Updated' = Updated /\ Updated + Len(updq) = D /\ Updated \in Int
  <2> HIDE DEF D
  <2>1. D \in Int /\ Len(updq) \in Int
    BY <1>4, <1>15
  <2> QED
    BY ONLY <1>12, <1>16, <1>17, <2>1
<1>19. OpsAt(updq', Updated, reqs, psnOf)
  <2>1. OpAt(p.op, Updated + Len(updq), reqs, psnOf)
    BY <1>11, <1>18 DEF OpAt
  <2> QED
    BY <1>7, <1>15, <1>16, <1>18, <2>1, OpsAdded
<1>20. Listed'
  <2>1. PICK q : IsList(q, mtable, ptr, freeq) /\ Follows(q, reqs, psnOf, next, mtable, insq, Updated, early)
    BY <1>0 DEF Listed
  <2>2. IsList(q, mtable', ptr', freeq') /\ Follows(q, reqs', psnOf', next', mtable', insq', Updated', early')
    BY <1>1, <1>13, <1>18, <2>1
  <2>3. updq' \in Seq(OpSet) /\ OpsAt(updq', Updated', reqs', psnOf')
    BY <1>13, <1>16, <1>18, <1>19
  <2> QED
    BY <2>2, <2>3 DEF Listed
<1>21. ASSUME p.op = "ACK" PROVE Reading'
  <2>1. \A i \in 1 .. Len(reqs) : reqs[i] # "READ"
    BY <1>7, <1>21
  <2>2. aexh = <<>>
    <3> SUFFICES ASSUME aexh # <<>> PROVE FALSE
      OBVIOUS
    <3>1. 1 \in 1 .. Len(aexh)
      BY <1>4
    <3>2. aexh[1].op # "ACK" /\ Resp(aexh[1], Stored + 1 - 1, reqs, psnOf)
      BY <1>0, <3>1 DEF Reading, RespAt
    <3>3. \A i \in 1 .. Len(reqs) : reqs[i] = "READ"
      BY <3>2, OneKind
    <3>4. 1 \in 1 .. Len(reqs)
      BY <1>4, <1>7
    <3> QED
      BY <2>1, <3>3, <3>4
  <2>3. aexh' = <<>>
    BY <1>1, <1>21, <2>2
  <2>4. RespAt(aexh', Stored', reqs', psnOf') /\ \A k \in 1 .. Len(aexh') : aexh'[k].op # "ACK"
    BY <2>3, RespNone
  <2>5. ~(\A i \in 1 .. Len(reqs') : reqs'[i] = "READ")
    <3>1. 1 \in 1 .. Len(reqs)
      BY <1>4, <1>7
    <3> QED
      BY <1>13, <2>1, <3>1
  <2>6. rdinit' = rdinit /\ landed' = landed /\ early' = early
    BY <1>1
  <2> QED
    BY <1>0, <2>4, <2>5, <2>6 DEF Reading
<1>22. ASSUME p.op # "ACK" PROVE Reading'
  <2>1. aexh' = Append(aexh, p) /\ Len(aexh') = Len(aexh) + 1
        /\ (\A i \in 1 .. Len(aexh) : aexh'[i] = aexh[i]) /\ aexh'[Len(aexh) + 1] = p
    BY <1>1, <1>4, <1>5, <1>22, Appended
  <2>2. Stored = D - Len(aexh) /\ Stored' = Distance(unack') - Len(aexh')
    BY DEF Stored
  <2>3. Stored' = Stored /\ Stored + Len(aexh) = D /\ Stored \in Int
    <3> HIDE DEF D
    <3>1. D \in Int /\ Len(aexh) \in Int
      BY <1>4
    <3> QED
      BY ONLY <1>12, <2>1, <2>2, <3>1
  <2>4. RespAt(aexh', Stored, reqs, psnOf)
    <3>1. RespAt(aexh, Stored, reqs, psnOf) /\ Resp(p, Stored + Len(aexh), reqs, psnOf)
      BY <1>0, <1>6, <2>3 DEF Reading
    <3> QED
      BY <1>4, <1>5, <2>1, <2>3, <3>1, RespAdded
  <2>5. \A k \in 1 .. Len(aexh') : aexh'[k].op # "ACK"
    <3>1. \A k \in 1 .. Len(aexh') : k \in 1 .. Len(aexh) \/ k = Len(aexh) + 1
      BY <1>4, <2>1
    <3>2. \A k \in 1 .. Len(aexh) : aexh[k].op # "ACK"
      BY <1>0 DEF Reading
    <3> QED
      BY <1>22, <2>1, <3>1, <3>2
  <2>6. rdinit' = rdinit /\ landed' = landed /\ early' = early /\ adma' = adma
    BY <1>1
  <2>7. RespAt(aexh', Stored', reqs', psnOf')
    BY <1>13, <2>3, <2>4
  <2>8. (\A i \in 1 .. Len(reqs') : reqs'[i] = "READ") /\ ~early' =>
          \E g : Landing(g, reqs', psnOf', next', Updated', Stored', rdinit', adma')
    BY <1>0, <1>13, <1>18, <2>3, <2>6 DEF Reading
  <2> QED
    BY <1>0, <2>5, <2>6, <2>7, <2>8 DEF Reading
<1> QED
  BY <1>2, <1>3, <1>14, <1>20, <1>21, <1>22 DEF Flow

\* The data that is stored next is that of the read whose address comes next, or
\* goes behind what was stored of the same read.
LandsNext(r, o, R, S, n, u, e, ri, ad) ==
  /\ o # 0 => ad = <<r, o>>
  /\ o = 0 /\ ri # <<>> => Head(ri) = <<r, 0>> /\ Landing(r, R, S, n, u, e + 1, Tail(ri), <<r, 1>>)
  /\ o # 0 => \A a : (o < Pkgs(R[r]) - 1 => a = <<r, o + 1>>) => Landing(r, R, S, n, u, e + 1, ri, a)

LEMMA Lands ==
  ASSUME NEW R \in Seq(KindSet), NEW S \in Seq(Psn), NEW n \in Psn, InPhase(R, S, n),
         NEW g, NEW u, NEW e, NEW ri \in Seq(Nat \X Int), NEW ad, Landing(g, R, S, n, u, e, ri, ad),
         NEW r, NEW o, Place(r, o, e, R, S)
  PROVE  LandsNext(r, o, R, S, n, u, e, ri, ad)
<1>1. /\ Len(R) \in Nat
      /\ \A x \in 0 .. Len(R) : Start(x, S, n) \in Nat
      /\ \A x, y \in 0 .. Len(R) : x < y => Start(x, S, n) < Start(y, S, n)
  BY StartIs
<1>2. /\ r \in 1 .. Len(R) /\ r - 1 \in 0 .. Len(R) /\ r \in 0 .. Len(R) /\ o \in Nat /\ e \in Nat
      /\ o <= Pkgs(R[r]) - 1
      /\ e = Start(r - 1, S, n) + o /\ Start(r, S, n) = Start(r - 1, S, n) + Pkgs(R[r])
      /\ \A x \in 0 .. Len(R) : /\ Start(x, S, n) <= e => x <= r - 1
                                /\ e < Start(x, S, n) => r <= x
  BY Placed
<1>3. /\ g \in Nat /\ g + Len(ri) <= Len(R)
      /\ \A k \in 1 .. Len(ri) : ri[k] = <<g + k, 0>>
      /\ e <= Start(g, S, n) /\ (g > 0 => Start(g - 1, S, n) < e)
      /\ u <= Start(g + Len(ri), S, n) /\ (g + Len(ri) > 0 => Start((g + Len(ri)) - 1, S, n) < u)
      /\ g > 0 /\ e < Start(g, S, n) => ad = <<g, e - Start(g - 1, S, n)>>
  BY DEF Landing
<1>4. g \in 0 .. Len(R) /\ (g > 0 => g - 1 \in 0 .. Len(R)) /\ Len(ri) \in Nat /\ Pkgs(R[r]) \in Nat
  BY <1>1, <1>3, PkgsIs
<1>5. Start(r - 1, S, n) \in Nat /\ Start(r, S, n) \in Nat /\ Start(g, S, n) \in Nat /\ (g > 0 => Start(g - 1, S, n) \in Nat)
  BY <1>1, <1>2, <1>4
<1>6. ASSUME o = 0 PROVE r = g + 1
  <2>1. e = Start(r - 1, S, n)
    BY <1>2, <1>5, <1>6
  <2>2. r - 1 <= g
    <3>1. g < r - 1 => Start(g, S, n) < Start(r - 1, S, n)
      BY <1>1, <1>2, <1>4
    <3>2. ~(g < r - 1)
      BY <1>3, <1>5, <2>1, <3>1
    <3> QED
      BY <1>2, <1>4, <3>2
  <2>3. ~(r - 1 < g)
    <3> SUFFICES ASSUME r - 1 < g PROVE FALSE
      OBVIOUS
    <3>1. g > 0 /\ g - 1 \in 0 .. Len(R) /\ Start(g - 1, S, n) < e
      BY <1>2, <1>3, <1>4
    <3>2. g - 1 = r - 1 \/ r - 1 < g - 1
      BY <1>2, <1>4
    <3> QED
      BY <1>1, <1>2, <1>5, <2>1, <3>1, <3>2
  <2> QED
    BY <1>2, <1>4, <2>2, <2>3
<1>7. ASSUME o # 0 PROVE r = g /\ ad = <<r, o>> /\ g > 0
  <2>1. Start(r - 1, S, n) < e
    BY <1>2, <1>5, <1>7
  <2>2. r - 1 < g
    <3>1. e <= Start(g, S, n)
      BY <1>3
    <3>2. g # r - 1
      BY <1>2, <1>5, <2>1, <3>1
    <3>3. g < r - 1 => Start(g, S, n) < Start(r - 1, S, n)
      BY <1>1, <1>2, <1>4
    <3>4. ~(g < r - 1)
      BY <1>2, <1>5, <2>1, <3>1, <3>3
    <3> QED
      BY <1>2, <1>4, <3>2, <3>4
  <2>3. g > 0 /\ g - 1 \in 0 .. Len(R) /\ Start(g - 1, S, n) < e
    BY <1>2, <1>3, <1>4, <2>2
  <2>4. g - 1 <= r - 1
    BY <1>2, <1>5, <2>3
  <2>5. r = g
    BY <1>2, <1>4, <2>2, <2>4
  <2>6. e < Start(g, S, n) /\ e - Start(g - 1, S, n) = o
    BY <1>2, <1>4, <1>5, <2>5
  <2> QED
    BY <1>3, <2>3, <2>5, <2>6
<1>8. ASSUME o = 0, ri # <<>>
      PROVE  Head(ri) = <<r, 0>> /\ Landing(r, R, S, n, u, e + 1, Tail(ri), <<r, 1>>)
  <2>1. r = g + 1
    BY <1>6, <1>8
  <2>2. /\ Len(Tail(ri)) = Len(ri) - 1 /\ Len(ri) >= 1 /\ Head(ri) = ri[1]
        /\ \A i \in 1 .. Len(ri) - 1 : Tail(ri)[i] = ri[i + 1]
    BY <1>8, Tailed
  <2>3. Head(ri) = <<r, 0>>
    BY <1>3, <1>4, <2>1, <2>2
  <2>4. ASSUME NEW k \in 1 .. Len(Tail(ri)) PROVE Tail(ri)[k] = <<r + k, 0>>
    <3>1. k + 1 \in 1 .. Len(ri) /\ g + (k + 1) = r + k /\ Tail(ri)[k] = ri[k + 1]
      BY <1>2, <1>4, <2>1, <2>2
    <3>2. ri[k + 1] = <<g + (k + 1), 0>>
      BY <1>3, <3>1
    <3> QED
      BY <3>1, <3>2
  <2> DEFINE l == Len(Tail(ri))
  <2>5. r + l = g + Len(ri) /\ r - 1 = g
    <3>1. l = Len(ri) - 1 /\ g \in Int /\ Len(ri) \in Int
      BY <1>3, <1>4, <2>2
    <3> HIDE DEF l
    <3> QED
      BY ONLY <2>1, <3>1
  <2>6. e + 1 <= Start(r, S, n) /\ Start(r - 1, S, n) < e + 1 /\ (e + 1) - Start(r - 1, S, n) = 1
    BY <1>2, <1>4, <1>5, <1>8
  <2>7. /\ r \in Nat /\ r + l <= Len(R)
        /\ u <= Start(r + l, S, n) /\ (r + l > 0 => Start((r + l) - 1, S, n) < u)
    <3>1. u <= Start(g + Len(ri), S, n) /\ (g + Len(ri) > 0 => Start((g + Len(ri)) - 1, S, n) < u) /\ g + Len(ri) <= Len(R)
      BY <1>3
    <3> DEFINE z == g + Len(ri)
    <3>2. r + l = z /\ u <= Start(z, S, n) /\ (z > 0 => Start(z - 1, S, n) < u) /\ z <= Len(R) /\ r \in Nat
      BY <1>2, <2>5, <3>1
    <3>3. z \in Int /\ l \in Int /\ Len(R) \in Int
      BY <1>1, <1>3, <1>4, <2>2
    <3> HIDE DEF l, z
    <3> QED
      BY ONLY <3>2, <3>3
  <2> QED
    BY <2>3, <2>4, <2>6, <2>7 DEF Landing
<1>9. ASSUME o # 0, NEW a, o < Pkgs(R[r]) - 1 => a = <<r, o + 1>>
      PROVE  Landing(r, R, S, n, u, e + 1, ri, a)
  <2>1. r = g /\ g > 0
    BY <1>7, <1>9
  <2>2. e + 1 <= Start(r, S, n) /\ Start(r - 1, S, n) < e + 1 /\ (e + 1) - Start(r - 1, S, n) = o + 1
    BY <1>2, <1>4, <1>5
  <2>3. e + 1 < Start(r, S, n) => o < Pkgs(R[r]) - 1
    BY <1>2, <1>4, <1>5
  <2>4. e + 1 < Start(r, S, n) => a = <<r, (e + 1) - Start(r - 1, S, n)>>
    BY <1>9, <2>2, <2>3
  <2> QED
    BY <1>3, <2>1, <2>2, <2>4 DEF Landing
<1> QED
  BY <1>7, <1>8, <1>9 DEF LandsNext

LEMMA RxExhFlows ==
  ASSUME RoceInv, Undisturbed, Flow, RxExh
  PROVE  Flow'
<1>0. Quiet /\ Outbound /\ Inbound /\ Listed /\ Reading /\ Writing
  BY DEF Flow
<1> DEFINE p == Head(aexh)
           first == p.op \in {"RESP_FIRST", "RESP_ONLY"}
           at == IF first THEN Head(rdinit) ELSE adma
<1>1. /\ aexh # <<>> /\ aexh' = Tail(aexh)
      /\ UNCHANGED <<unack, arx, insq, mtable, ptr, freeq, rt, updq, rtev, early, expired>>
      /\ UNCHANGED <<txVars, rspVars, fwd, back>>
  BY DEF RxExh, netVars, tmVars
<1>2. aexh \in Seq(Event) /\ Len(aexh) \in Nat /\ Stored \in Int /\ reqs \in Seq(KindSet) /\ psnOf \in Seq(Psn)
      /\ next \in Psn /\ InPhase(reqs, psnOf, next) /\ Distance(unack) \in Nat
  BY <1>0, FlowTypes, Numbers
<1>3. Resp(p, Stored, reqs, psnOf) /\ RespAt(aexh', Stored + 1, reqs, psnOf)
  <2>1. RespAt(aexh, Stored, reqs, psnOf)
    BY <1>0 DEF Reading
  <2> QED
    BY <1>1, <1>2, <2>1, RespTaken
<1>4. /\ Len(aexh') = Len(aexh) - 1 /\ 1 \in 1 .. Len(aexh) /\ p = aexh[1]
      /\ \A k \in 1 .. Len(aexh') : k + 1 \in 1 .. Len(aexh) /\ aexh'[k] = aexh[k + 1]
  <2>1. /\ Len(aexh') = Len(aexh) - 1 /\ Len(aexh) >= 1 /\ p = aexh[1]
        /\ \A k \in 1 .. Len(aexh) - 1 : aexh'[k] = aexh[k + 1]
    BY <1>1, <1>2, Tailed
  <2> QED
    BY <1>2, <2>1
<1>5. p.op # "NAK" /\ p.op # "ACK"
  BY <1>0, <1>3, <1>4, OneKind DEF Reading
<1>6. /\ first => rdinit # <<>>
      /\ landed' = landed \cup {[at |-> at, data |-> <<p.req, p.off>>]}
      /\ rdinit' = IF first THEN Tail(rdinit) ELSE rdinit
      /\ adma' = IF p.op = "RESP_LAST" THEN adma ELSE <<at[1], at[2] + 1>>
      /\ nakq' = nakq
  BY <1>5 DEF RxExh
<1>7. Outbound' /\ Writing'
  BY <1>0, <1>1, ResponderFrame
<1>8. Inbound'
  BY <1>0, <1>1, InboundFrame
<1>9. reqs' = reqs /\ psnOf' = psnOf /\ next' = next
  BY <1>1 DEF txVars
<1>10. Updated' = Updated
  BY <1>1 DEF Updated
<1>11. Quiet' /\ Listed'
  BY <1>0, <1>1, <1>6, <1>9, <1>10 DEF Quiet, Listed
<1>12. Stored' = Stored + 1
  <2>1. Stored = Distance(unack) - Len(aexh) /\ Stored' = Distance(unack) - Len(aexh')
    BY <1>1 DEF Stored
  <2>2. Distance(unack) \in Int /\ Len(aexh) \in Int
    BY <1>2
  <2> QED
    BY ONLY <1>4, <2>1, <2>2
<1>13. \A k \in 1 .. Len(aexh') : aexh'[k].op # "ACK"
  BY <1>0, <1>4 DEF Reading
<1>14. rdinit \in Seq(Nat \X Int) /\ rdinit' \in Seq(Nat \X Int)
  <2>1. rdinit \in Seq(Nat \X Int)
    BY <1>0 DEF Reading
  <2>2. CASE first
    BY <1>6, <2>1, <2>2, Tailed
  <2>3. CASE ~first
    BY <1>6, <2>1, <2>3
  <2> QED
    BY <2>1, <2>2, <2>3
<1>15. ASSUME ~early
       PROVE  /\ \A d \in landed' : d.at = d.data
              /\ \E g : Landing(g, reqs, psnOf, next, Updated, Stored + 1, rdinit', adma')
  <2>1. PICK r, o : /\ Place(r, o, Stored, reqs, psnOf) /\ p.op = OpOf(reqs[r], o)
                    /\ reqs[r] = "READ" => p.req = r /\ p.off = o
    BY <1>3 DEF Resp
  <2>2. /\ reqs[r] = "READ" /\ p.req = r /\ p.off = o
        /\ first <=> o = 0
        /\ p.op \notin {"RESP_FIRST", "RESP_MIDDLE"} => o = Pkgs(reqs[r]) - 1
    <3> DEFINE op == p.op
    <3>1. Place(r, o, Stored, reqs, psnOf) /\ op = OpOf(reqs[r], o)
      BY <2>1
    <3> HIDE DEF op
    <3>2. /\ op # "ACK" <=> reqs[r] = "READ"
          /\ op \in {"RESP_FIRST", "RESP_ONLY"} <=> reqs[r] = "READ" /\ o = 0
          /\ op \notin {"RESP_FIRST", "RESP_MIDDLE"} => o = Pkgs(reqs[r]) - 1
      BY <1>2, <3>1, OpIs
    <3> QED
      BY <1>5, <2>1, <3>2 DEF op
  <2>3. \A i \in 1 .. Len(reqs) : reqs[i] = "READ"
    BY <1>3, <1>5, OneKind
  <2>4. PICK g : Landing(g, reqs, psnOf, next, Updated, Stored, rdinit, adma)
    BY <1>0, <1>15, <2>3 DEF Reading
  <2>5. o \in Nat /\ Pkgs(reqs[r]) \in Nat
    BY <1>2, <2>1, Placed, PkgsIs
  <2>6. /\ o # 0 => adma = <<r, o>>
        /\ o = 0 /\ rdinit # <<>> =>
             Head(rdinit) = <<r, 0>> /\ Landing(r, reqs, psnOf, next, Updated, Stored + 1, Tail(rdinit), <<r, 1>>)
        /\ o # 0 => \A a : (o < Pkgs(reqs[r]) - 1 => a = <<r, o + 1>>) =>
                      Landing(r, reqs, psnOf, next, Updated, Stored + 1, rdinit, a)
    <3>1. Place(r, o, Stored, reqs, psnOf)
      BY <2>1
    <3>2. reqs \in Seq(KindSet) /\ psnOf \in Seq(Psn) /\ next \in Psn /\ InPhase(reqs, psnOf, next)
      BY <1>2
    <3>3. rdinit \in Seq(Nat \X Int)
      BY <1>14
    <3>4. LandsNext(r, o, reqs, psnOf, next, Updated, Stored, rdinit, adma)
      BY <2>4, <3>1, <3>2, <3>3, Lands
    <3> QED
      BY <3>4 DEF LandsNext
  <2>7. at = <<r, o>>
    BY <1>6, <2>2, <2>6
  <2>8. \A d \in landed' : d.at = d.data
    <3>1. \A d \in landed : d.at = d.data
      BY <1>0, <1>15 DEF Reading
    <3> HIDE DEF at
    <3> QED
      BY <1>6, <2>2, <2>7, <3>1
  <2>9. CASE first
    <3>1. o = 0 /\ rdinit' = Tail(rdinit) /\ rdinit # <<>> /\ p.op # "RESP_LAST"
      BY <1>6, <2>2, <2>9
    <3>2. adma' = <<r, 1>>
      <4>1. adma' = <<at[1], at[2] + 1>> /\ at = <<r, 0>>
        BY <1>6, <2>7, <3>1
      <4> HIDE DEF at
      <4> QED
        BY <4>1
    <3> QED
      BY <2>6, <2>8, <3>1, <3>2
  <2>10. CASE ~first
    <3>1. o # 0 /\ rdinit' = rdinit
      BY <1>6, <2>2, <2>10
    <3>2. o < Pkgs(reqs[r]) - 1 => adma' = <<r, o + 1>>
      <4> SUFFICES ASSUME o < Pkgs(reqs[r]) - 1 PROVE adma' = <<r, o + 1>>
        OBVIOUS
      <4>1. p.op # "RESP_LAST"
        BY <2>2, <2>5
      <4>2. adma' = <<at[1], at[2] + 1>>
        BY <1>6, <4>1
      <4> HIDE DEF at
      <4> QED
        BY <2>7, <4>2
    <3> QED
      BY <2>6, <2>8, <3>1, <3>2
  <2> QED
    BY <2>9, <2>10
<1>16. Reading'
  <2>1. early' = early
    BY <1>1
  <2>2. ~early' => \A d \in landed' : d.at = d.data
    BY <1>15, <2>1
  <2>3. ~early' => \E g : Landing(g, reqs', psnOf', next', Updated', Stored', rdinit', adma')
    BY <1>9, <1>10, <1>12, <1>15, <2>1
  <2>4. RespAt(aexh', Stored', reqs', psnOf')
    BY <1>3, <1>9, <1>12
  <2> QED
    BY <1>13, <1>14, <2>2, <2>3, <2>4 DEF Reading
<1> QED
  BY <1>7, <1>8, <1>11, <1>16 DEF Flow

\* The head of the list is what the next response is for, if none was missed.
HeadIs(h, r, o, q, mt, R, ea) ==
  /\ h \in 0 .. Len(R) - 1 /\ h + 1 <= r
  /\ ~ea => r = h + 1 /\ mt[q[1]].ev.req = r /\ mt[q[1]].ev.off = o

LEMMA FollowsIs ==
  ASSUME NEW R \in Seq(KindSet), NEW S \in Seq(Psn), NEW n \in Psn, InPhase(R, S, n),
         NEW q \in Seq(Slot), q # <<>>, NEW mt, NEW iq \in Seq(Event), NEW u, NEW ea,
         NEW h \in Nat, h + Len(q) <= Len(R), FollowsAt(h, q, R, S, n, mt, iq, u, ea), NEW r, NEW o, Place(r, o, u, R, S)
  PROVE  HeadIs(h, r, o, q, mt, R, ea)
<1>1. /\ Start(h, S, n) <= u /\ (\A k \in 1 .. Len(q) : mt[q[k]].ev.req = h + k)
      /\ ~ea => mt[q[1]].ev.off = u - Start(h, S, n) /\ u < Start(h + 1, S, n)
  BY DEF FollowsAt
<1>2. Len(q) \in Nat /\ Len(q) >= 1 /\ Len(iq) \in Nat /\ Len(R) \in Nat
  OBVIOUS
<1>3. h \in 0 .. Len(R) /\ h + 1 \in 0 .. Len(R) /\ h \in 0 .. Len(R) - 1 /\ h + Len(q) <= Len(R)
  BY <1>2
<1>4. /\ r \in 1 .. Len(R) /\ o \in Nat /\ u \in Nat /\ u = Start(r - 1, S, n) + o
      /\ \A x \in 0 .. Len(R) : /\ Start(x, S, n) <= u => x <= r - 1
                                /\ u < Start(x, S, n) => r <= x
  BY Placed
<1>5. h <= r - 1
  BY <1>1, <1>3, <1>4
<1>6. h + 1 <= r
  BY <1>2, <1>3, <1>4, <1>5
<1>7. ASSUME ~ea PROVE r = h + 1 /\ mt[q[1]].ev.req = r /\ mt[q[1]].ev.off = o
  <2>1. r <= h + 1
    BY <1>1, <1>3, <1>4, <1>7
  <2>2. r = h + 1 /\ r - 1 = h
    BY <1>2, <1>3, <1>4, <1>6, <2>1
  <2>3. Start(h, S, n) \in Nat
    BY <1>3, StartIs
  <2>4. 1 \in 1 .. Len(q)
    BY <1>2
  <2>5. mt[q[1]].ev.off = u - Start(h, S, n) /\ u = Start(h, S, n) + o
    BY <1>1, <1>4, <1>7, <2>2
  <2> QED
    BY <1>1, <1>4, <2>2, <2>3, <2>4, <2>5
<1> QED
  BY <1>3, <1>6, <1>7 DEF HeadIs

\* It is cut by a packet, ...
LEMMA FollowsCut ==
  ASSUME NEW R \in Seq(KindSet), NEW S \in Seq(Psn), NEW n \in Psn, InPhase(R, S, n),
         NEW q \in Seq(Slot), q # <<>>, NEW mt, NEW iq \in Seq(Event), NEW u, NEW ea,
         NEW h \in Nat, h + Len(q) <= Len(R), FollowsAt(h, q, R, S, n, mt, iq, u, ea), NEW r, NEW o, Place(r, o, u, R, S),
         o < Pkgs(R[r]) - 1, NEW mn,
         \A k \in 1 .. Len(q) : mn[q[k]].ev.req = mt[q[k]].ev.req,
         mn[q[1]].ev.off = mt[q[1]].ev.off + 1,
         \A k \in 2 .. Len(q) : mn[q[k]].ev.off = mt[q[k]].ev.off
  PROVE  FollowsAt(h, q, R, S, n, mn, iq, u + 1, ea)
<1>1. /\ h >= 0 /\ FullAt(iq, Len(R) - Len(iq), R, S)
      /\ Start(h, S, n) <= u /\ (\A k \in 1 .. Len(q) : mt[q[k]].ev.req = h + k)
      /\ ~ea => \A k \in 2 .. Len(q) : mt[q[k]].ev.off = 0
  BY DEF FollowsAt
<1>2. /\ h \in 0 .. Len(R) - 1
      /\ ~ea => r = h + 1 /\ mt[q[1]].ev.req = r /\ mt[q[1]].ev.off = o
  <2>1. HeadIs(h, r, o, q, mt, R, ea)
    BY FollowsIs
  <2> QED
    BY <2>1 DEF HeadIs
<1>3. /\ r \in 1 .. Len(R) /\ o \in Nat /\ u \in Nat /\ u = Start(r - 1, S, n) + o
      /\ r - 1 \in 0 .. Len(R) /\ Start(r, S, n) = Start(r - 1, S, n) + Pkgs(R[r])
  BY Placed
<1>4. Start(h, S, n) \in Nat /\ Start(r - 1, S, n) \in Nat /\ Pkgs(R[r]) \in Nat
  <2>1. h \in 0 .. Len(R)
    BY <1>2
  <2> QED
    BY <1>3, <2>1, StartIs, PkgsIs
<1>5. Start(h, S, n) <= u + 1
  BY <1>1, <1>3, <1>4
<1>6. ASSUME ~ea
      PROVE  /\ mn[q[1]].ev.off = (u + 1) - Start(h, S, n) /\ u + 1 < Start(h + 1, S, n)
             /\ \A k \in 2 .. Len(q) : mn[q[k]].ev.off = 0
  <2>1. r = h + 1 /\ r - 1 = h /\ mt[q[1]].ev.off = o
    <3>1. r = h + 1 /\ mt[q[1]].ev.off = o
      BY <1>2, <1>6
    <3>2. h \in Nat
      OBVIOUS
    <3>3. r - 1 = h
      BY ONLY <3>1, <3>2
    <3> QED
      BY <3>1, <3>3
  <2>2. o + 1 = (u + 1) - Start(h, S, n) /\ u + 1 < Start(h + 1, S, n)
    <3>1. u = Start(h, S, n) + o /\ Start(h + 1, S, n) = Start(h, S, n) + Pkgs(R[r]) /\ o \in Nat
      BY <1>3, <2>1
    <3>2. o < Pkgs(R[r]) - 1
      OBVIOUS
    <3> QED
      BY ONLY <1>4, <3>1, <3>2
  <2> QED
    BY <1>1, <1>6, <2>1, <2>2
<1>7. \A k \in 1 .. Len(q) : mn[q[k]].ev.req = h + k
  BY <1>1
<1> QED
  BY <1>1, <1>5, <1>6, <1>7 DEF FollowsAt

\* ... or released.
LEMMA FollowsReleased ==
  ASSUME NEW R \in Seq(KindSet), NEW S \in Seq(Psn), NEW n \in Psn, InPhase(R, S, n),
         NEW q \in Seq(Slot), q # <<>>, NEW mt, NEW iq \in Seq(Event), NEW u, NEW ea,
         NEW h \in Nat, h + Len(q) <= Len(R), FollowsAt(h, q, R, S, n, mt, iq, u, ea), NEW r, NEW o, Place(r, o, u, R, S),
         o = Pkgs(R[r]) - 1
  PROVE  FollowsAt(h + 1, Tail(q), R, S, n, mt, iq, u + 1, ea)
<1> DEFINE t == Tail(q)
<1>1. /\ h >= 0 /\ FullAt(iq, Len(R) - Len(iq), R, S)
      /\ (\A k \in 1 .. Len(q) : mt[q[k]].ev.req = h + k)
      /\ ~ea => \A k \in 2 .. Len(q) : mt[q[k]].ev.off = 0
  BY DEF FollowsAt
<1>2. h \in 0 .. Len(R) - 1 /\ h + 1 <= r /\ (~ea => r = h + 1) /\ Len(q) \in Nat /\ h + Len(q) <= Len(R)
  <2>1. HeadIs(h, r, o, q, mt, R, ea)
    BY FollowsIs
  <2> QED
    BY <2>1 DEF HeadIs
<1>3. /\ t \in Seq(Slot) /\ Len(t) = Len(q) - 1 /\ \A k \in 1 .. Len(q) - 1 : t[k] = q[k + 1]
  BY Tailed
<1>5. /\ r \in 1 .. Len(R) /\ u \in Nat /\ u = Start(r - 1, S, n) + o /\ o \in Nat
      /\ r - 1 \in 0 .. Len(R) /\ r \in 0 .. Len(R) /\ Start(r, S, n) = Start(r - 1, S, n) + Pkgs(R[r])
  BY Placed
<1> HIDE DEF t
<1>6. h + 1 \in 0 .. Len(R) /\ Len(R) \in Nat
  BY <1>2
<1>7. /\ \A x \in 0 .. Len(R) : Start(x, S, n) \in Nat
      /\ \A x, y \in 0 .. Len(R) : x < y => Start(x, S, n) < Start(y, S, n)
  BY StartIs
<1>8. u + 1 = Start(r, S, n) /\ Start(r, S, n) \in Nat /\ Start(h + 1, S, n) \in Nat
  <2>1. Start(r, S, n) \in Nat /\ Start(h + 1, S, n) \in Nat /\ Start(r - 1, S, n) \in Nat /\ Pkgs(R[r]) \in Nat
    BY <1>5, <1>6, <1>7, PkgsIs
  <2>2. o = Pkgs(R[r]) - 1
    OBVIOUS
  <2>3. u = Start(r - 1, S, n) + o /\ Start(r, S, n) = Start(r - 1, S, n) + Pkgs(R[r])
    BY <1>5
  <2> QED
    BY ONLY <2>1, <2>2, <2>3
<1>9. Start(h + 1, S, n) <= u + 1
  <2>1. h + 1 = r \/ h + 1 < r
    BY <1>2, <1>5, <1>6
  <2> QED
    BY <1>5, <1>6, <1>7, <1>8, <2>1
<1>10. \A k \in 1 .. Len(t) : k + 1 \in 1 .. Len(q) /\ t[k] = q[k + 1] /\ k + 1 \in 2 .. Len(q) /\ h + (k + 1) = (h + 1) + k
  BY <1>2, <1>3
<1>11. \A k \in 1 .. Len(t) : mt[t[k]].ev.req = (h + 1) + k
  BY <1>1, <1>10
<1>12. ASSUME ~ea
       PROVE  /\ t = <<>> => Start(h + 1, S, n) = u + 1
              /\ t # <<>> => mt[t[1]].ev.off = (u + 1) - Start(h + 1, S, n) /\ u + 1 < Start((h + 1) + 1, S, n)
              /\ \A k \in 2 .. Len(t) : mt[t[k]].ev.off = 0
  <2>1. Start(h + 1, S, n) = u + 1
    BY <1>2, <1>8, <1>12
  <2>2. \A k \in 1 .. Len(t) : mt[t[k]].ev.off = 0
    BY <1>1, <1>10, <1>12
  <2>3. \A k \in 2 .. Len(t) : mt[t[k]].ev.off = 0
    <3>1. \A k \in 2 .. Len(t) : k \in 1 .. Len(t)
      BY <1>2, <1>3
    <3> QED
      BY <2>2, <3>1
  <2>4. ASSUME t # <<>> PROVE mt[t[1]].ev.off = (u + 1) - Start(h + 1, S, n) /\ u + 1 < Start((h + 1) + 1, S, n)
    <3>1. Len(t) >= 1 /\ 1 \in 1 .. Len(t)
      BY <1>3, <2>4
    <3>2. (h + 1) + 1 \in 0 .. Len(R) /\ h + 1 < (h + 1) + 1
      BY <1>2, <1>3, <1>6, <3>1
    <3>3. Start(h + 1, S, n) < Start((h + 1) + 1, S, n)
      BY <1>6, <1>7, <3>2
    <3>4. (u + 1) - Start(h + 1, S, n) = 0
      BY <1>5, <1>8, <2>1
    <3> QED
      BY <2>1, <2>2, <3>1, <3>3, <3>4
  <2> QED
    BY <2>1, <2>3, <2>4
<1>13. FollowsAt(h + 1, t, R, S, n, mt, iq, u + 1, ea)
  <2> DEFINE g == h + 1
  <2>1. /\ g >= 0 /\ (\A k \in 1 .. Len(t) : mt[t[k]].ev.req = g + k) /\ Start(g, S, n) <= u + 1
        /\ ~ea => /\ t = <<>> => Start(g, S, n) = u + 1
                  /\ t # <<>> => mt[t[1]].ev.off = (u + 1) - Start(g, S, n) /\ u + 1 < Start(g + 1, S, n)
                  /\ \A k \in 2 .. Len(t) : mt[t[k]].ev.off = 0
    BY <1>6, <1>9, <1>11, <1>12
  <2> HIDE DEF g
  <2>2. FollowsAt(g, t, R, S, n, mt, iq, u + 1, ea)
    BY <1>1, <2>1 DEF FollowsAt
  <2> QED
    BY <2>2 DEF g
<1> QED
  BY <1>13 DEF t

\* The address of a read is handed over once, with its first packet.
LEMMA Addressed ==
  ASSUME NEW R \in Seq(KindSet), NEW S \in Seq(Psn), NEW n \in Psn, InPhase(R, S, n),
         NEW g, NEW u, NEW e, NEW ri \in Seq(Nat \X Int), NEW ad, Landing(g, R, S, n, u, e, ri, ad),
         NEW r, NEW o, Place(r, o, u, R, S), NEW rn,
         rn = IF o = 0 THEN Append(ri, <<r, 0>>) ELSE ri
  PROVE  Landing(g, R, S, n, u + 1, e, rn, ad)
<1> DEFINE m == g + Len(ri)
<1>0. /\ g \in Nat /\ g + Len(ri) <= Len(R)
      /\ \A k \in 1 .. Len(ri) : ri[k] = <<g + k, 0>>
      /\ e <= Start(g, S, n) /\ (g > 0 => Start(g - 1, S, n) < e)
      /\ u <= Start(g + Len(ri), S, n) /\ (g + Len(ri) > 0 => Start((g + Len(ri)) - 1, S, n) < u)
      /\ g > 0 /\ e < Start(g, S, n) => ad = <<g, e - Start(g - 1, S, n)>>
  BY DEF Landing
<1>1. /\ g \in Nat /\ m <= Len(R)
      /\ \A k \in 1 .. Len(ri) : ri[k] = <<g + k, 0>>
      /\ e <= Start(g, S, n) /\ (g > 0 => Start(g - 1, S, n) < e)
      /\ u <= Start(m, S, n) /\ (m > 0 => Start(m - 1, S, n) < u)
      /\ g > 0 /\ e < Start(g, S, n) => ad = <<g, e - Start(g - 1, S, n)>>
  BY <1>0
<1>2. /\ Len(R) \in Nat
      /\ \A x \in 0 .. Len(R) : Start(x, S, n) \in Nat
      /\ \A x, y \in 0 .. Len(R) : x < y => Start(x, S, n) < Start(y, S, n)
  BY StartIs
<1>3. /\ r \in 1 .. Len(R) /\ r - 1 \in 0 .. Len(R) /\ r \in 0 .. Len(R) /\ o \in Nat /\ u \in Nat
      /\ o <= Pkgs(R[r]) - 1
      /\ u = Start(r - 1, S, n) + o /\ Start(r, S, n) = Start(r - 1, S, n) + Pkgs(R[r])
      /\ \A x \in 0 .. Len(R) : /\ Start(x, S, n) <= u => x <= r - 1
                                /\ u < Start(x, S, n) => r <= x
  BY Placed
<1>4. Len(ri) \in Nat /\ m \in 0 .. Len(R) /\ (m > 0 => m - 1 \in 0 .. Len(R)) /\ Pkgs(R[r]) \in Nat
  BY <1>1, <1>2, PkgsIs
<1>5. m = g + Len(ri)
  OBVIOUS
<1> HIDE DEF m
<1>6. Start(m, S, n) \in Nat /\ Start(r - 1, S, n) \in Nat /\ Start(r, S, n) \in Nat /\ (m > 0 => Start(m - 1, S, n) \in Nat)
  BY <1>2, <1>3, <1>4
<1>7. u + 1 <= Start(r, S, n) /\ Start(r - 1, S, n) < u + 1
  BY <1>3, <1>4, <1>6
<1>8. m > 0 => m <= r
  <2> SUFFICES ASSUME m > 0 PROVE m <= r
    OBVIOUS
  <2>1. Start(m - 1, S, n) <= u
    BY <1>1, <1>3, <1>6
  <2>2. m - 1 <= r - 1
    BY <1>3, <1>4, <2>1
  <2> QED
    BY <1>3, <1>4, <2>2
<1>9. r - 1 <= m
  <2>1. m < r - 1 => Start(m, S, n) < Start(r - 1, S, n)
    BY <1>2, <1>3, <1>4
  <2>2. ~(m < r - 1)
    BY <1>1, <1>3, <1>6, <2>1
  <2> QED
    BY <1>3, <1>4, <2>2
<1>10. CASE o = 0
  <2>1. m = r - 1
    <3>1. u = Start(r - 1, S, n)
      BY <1>3, <1>6, <1>10
    <3>2. m # r
      <4> SUFFICES ASSUME m = r PROVE FALSE
        OBVIOUS
      <4>1. m > 0 /\ m - 1 = r - 1
        BY <1>3
      <4> QED
        BY <1>1, <1>6, <3>1, <4>1
    <3> QED
      BY <1>3, <1>4, <1>8, <1>9, <3>2
  <2>2. <<r, 0>> \in Nat \X Int
    BY <1>2, <1>3
  <2>3. rn = Append(ri, <<r, 0>>)
    BY <1>10
  <2>4. /\ Len(rn) = Len(ri) + 1 /\ (\A i \in 1 .. Len(ri) : rn[i] = ri[i]) /\ rn[Len(ri) + 1] = <<r, 0>>
    BY <2>2, <2>3, Appended
  <2>5. g + Len(rn) = r /\ r - 1 >= 0 /\ g + (Len(ri) + 1) = r
    BY <1>1, <1>3, <1>4, <1>5, <2>1, <2>4
  <2>6. ASSUME NEW k \in 1 .. Len(rn) PROVE rn[k] = <<g + k, 0>>
    <3>1. CASE k \in 1 .. Len(ri)
      BY <1>1, <2>4, <3>1
    <3>2. CASE k \notin 1 .. Len(ri)
      <4>1. k = Len(ri) + 1
        BY <1>4, <2>4, <3>2
      <4> QED
        BY <2>4, <2>5, <4>1
    <3> QED
      BY <3>1, <3>2
  <2>7. g + Len(rn) <= Len(R) /\ u + 1 <= Start(g + Len(rn), S, n) /\ Start((g + Len(rn)) - 1, S, n) < u + 1
    <3> DEFINE z == g + Len(rn)
    <3>1. z = r /\ r <= Len(R)
      BY <1>2, <1>3, <2>5
    <3> HIDE DEF z
    <3>2. z <= Len(R) /\ u + 1 <= Start(z, S, n) /\ Start(z - 1, S, n) < u + 1
      BY ONLY <1>7, <3>1
    <3> QED
      BY <3>2 DEF z
  <2> QED
    BY <1>1, <2>6, <2>7 DEF Landing
<1>11. CASE o # 0
  <2>1. Start(r - 1, S, n) < u /\ rn = ri
    BY <1>3, <1>6, <1>11
  <2>2. m # r - 1
    BY <1>1, <1>3, <1>6, <2>1
  <2>3. m = r
    BY <1>3, <1>4, <1>8, <1>9, <2>2
  <2>4. u + 1 <= Start(m, S, n) /\ Start(m - 1, S, n) < u + 1
    BY <1>7, <2>3
  <2> QED
    BY <1>1, <1>5, <2>1, <2>4 DEF Landing
<1> QED
  BY <1>10, <1>11

LEMMA RetransUpdateFlows ==
  ASSUME RoceInv, EarlyKnown, Undisturbed, Flow, RetransUpdate
  PROVE  Flow'
<1>0. Quiet /\ Outbound /\ Inbound /\ Listed /\ Reading /\ Writing
  BY DEF Flow
<1> DEFINE op == Head(updq)
           e == mtable[ptr.head]
<1>1. /\ UNCHANGED <<insq, rt, nakq, rtev, expired, unack, arx, aexh, adma, landed>>
      /\ UNCHANGED <<txVars, rspVars, fwd, back>>
      /\ updq # <<>> /\ updq' = Tail(updq) /\ early' = (early \/ ~ptr.valid)
  BY DEF RetransUpdate, tmVars, rxVars, netVars
<1>2. Outbound' /\ Writing'
  BY <1>0, <1>1, ResponderFrame
<1>3. Inbound'
  BY <1>0, <1>1, InboundFrame
<1>4. Quiet'
  BY <1>0, <1>1 DEF Quiet
<1>5. /\ reqs \in Seq(KindSet) /\ psnOf \in Seq(Psn) /\ next \in Psn /\ InPhase(reqs, psnOf, next)
      /\ insq \in Seq(Event) /\ Len(insq) \in Nat /\ Len(reqs) \in Nat /\ Distance(unack) \in Nat
  BY FlowTypes
<1>6. mtable \in [Slot -> MetaEntry] /\ ptr \in PtrEntry
  BY DEF RoceInv, Types, RtTypes
<1>7. updq \in Seq(OpSet) /\ OpsAt(updq, Updated, reqs, psnOf)
  BY <1>0 DEF Listed
<1>8. updq' \in Seq(OpSet) /\ Len(updq') = Len(updq) - 1 /\ Len(updq) \in Nat
  BY <1>1, <1>7, Tailed
<1>9. Updated \in Int /\ Updated' = Updated + 1
  <2>1. Updated = Distance(unack) - Len(updq) /\ Updated' = Distance(unack) - Len(updq')
    BY <1>1 DEF Updated
  <2>2. Distance(unack) \in Int /\ Len(updq) \in Int
    BY <1>5, <1>8
  <2> QED
    BY ONLY <1>8, <2>1, <2>2
<1>10. OpAt(op, Updated, reqs, psnOf) /\ OpsAt(updq', Updated + 1, reqs, psnOf)
  BY <1>1, <1>7, <1>9, OpsTaken
<1>11. reqs' = reqs /\ psnOf' = psnOf /\ next' = next
  BY <1>1 DEF txVars
<1>12. Stored' = Stored
  BY <1>1 DEF Stored
<1>13. PICK q : IsList(q, mtable, ptr, freeq) /\ Follows(q, reqs, psnOf, next, mtable, insq, Updated, early)
  BY <1>0 DEF Listed
<1> DEFINE h == Len(reqs) - Len(insq) - Len(q)
<1>14. q \in Seq(Slot) /\ Len(q) \in Nat /\ FollowsAt(h, q, reqs, psnOf, next, mtable, insq, Updated, early)
  BY <1>13 DEF IsList, Follows
<1>15. h \in Nat /\ h + Len(q) <= Len(reqs) /\ h + Len(q) = Len(reqs) - Len(insq)
  <2>1. h >= 0
    BY <1>14 DEF FollowsAt
  <2> QED
    BY <1>5, <1>14, <2>1
<1>16. h = Len(reqs) - Len(insq) - Len(q)
  OBVIOUS
<1> HIDE DEF h
<1>17. PICK r, o : Place(r, o, Updated, reqs, psnOf) /\ op = OpOf(reqs[r], o)
  BY <1>10 DEF OpAt
<1>18. /\ op # "ACK" <=> reqs[r] = "READ"
       /\ op \in {"RESP_FIRST", "RESP_ONLY"} <=> reqs[r] = "READ" /\ o = 0
       /\ op \in {"RESP_FIRST", "RESP_MIDDLE"} => o < Pkgs(reqs[r]) - 1
       /\ op \notin {"RESP_FIRST", "RESP_MIDDLE"} => o = Pkgs(reqs[r]) - 1
  <2> HIDE DEF op
  <2> QED
    BY <1>5, <1>17, OpIs
<1>19. Place(r, o, Updated, reqs, psnOf)
  BY <1>17
<1>20. updq' \in Seq(OpSet) /\ OpsAt(updq', Updated', reqs', psnOf')
  BY <1>8, <1>9, <1>10, <1>11
<1>21. RespAt(aexh', Stored', reqs', psnOf') /\ \A k \in 1 .. Len(aexh') : aexh'[k].op # "ACK"
  BY <1>0, <1>1, <1>11, <1>12 DEF Reading
<1>22. ASSUME ~ptr.valid PROVE Listed' /\ Reading'
  <2>1. early' = TRUE /\ UNCHANGED <<mtable, ptr, freeq, rdinit>>
    BY <1>1, <1>22 DEF RetransUpdate
  <2>2. IsList(q, mtable', ptr', freeq')
    BY <1>13, <2>1
  <2>3. FollowsAt(h, q, reqs, psnOf, next, mtable, insq, Updated + 1, TRUE)
    <3>1. /\ h >= 0 /\ FullAt(insq, Len(reqs) - Len(insq), reqs, psnOf)
          /\ (\A k \in 1 .. Len(q) : mtable[q[k]].ev.req = h + k)
          /\ Start(h, psnOf, next) <= Updated
      BY <1>14 DEF FollowsAt
    <3>2. Start(h, psnOf, next) \in Nat
      <4>1. h \in 0 .. Len(reqs)
        BY <1>5, <1>14, <1>15
      <4> QED
        BY <1>5, <4>1, StartIs
    <3>3. Start(h, psnOf, next) <= Updated + 1
      BY <1>9, <3>1, <3>2
    <3> QED
      BY <3>1, <3>3 DEF FollowsAt
  <2>4. Follows(q, reqs', psnOf', next', mtable', insq', Updated', early')
    BY <1>1, <1>9, <1>11, <1>16, <2>1, <2>3 DEF Follows
  <2>5. Listed'
    BY <1>20, <2>2, <2>4 DEF Listed
  <2>6. Reading'
    BY <1>0, <1>21, <2>1 DEF Reading
  <2> QED
    BY <2>5, <2>6
<1>23. ASSUME ptr.valid PROVE Listed' /\ Reading'
  <2>1. early' = early
    BY <1>1, <1>23, Zenon DEF EarlyKnown
  <2>2. /\ rdinit' = IF op \in {"RESP_FIRST", "RESP_ONLY"} THEN Append(rdinit, <<e.ev.req, e.ev.off>>) ELSE rdinit
        /\ op \in {"RESP_FIRST", "RESP_MIDDLE"} => mtable' = [mtable EXCEPT ![ptr.head].ev = Cut(e.ev)] /\ UNCHANGED <<ptr, freeq>>
        /\ op \notin {"RESP_FIRST", "RESP_MIDDLE"} =>
             /\ ptr' = [ptr EXCEPT !.head = mtable[ptr.head].next, !.valid = ~mtable[ptr.head].isTail]
             /\ freeq' = Append(freeq, ptr.head) /\ UNCHANGED mtable
    BY <1>23 DEF RetransUpdate, Release
  <2> HIDE DEF op
  <2>3. q # <<>> /\ ptr.head = q[1] /\ 1 \in 1 .. Len(q) /\ q[1] \in Slot
    <3>1. Len(q) > 0 /\ ptr.head = q[1]
      BY <1>13, <1>23 DEF IsList
    <3> QED
      BY <1>14, <3>1
  <2>4. HeadIs(h, r, o, q, mtable, reqs, early)
    BY <1>5, <1>14, <1>15, <1>19, <2>3, FollowsIs
  <2>5. Listed'
    <3>1. CASE op \in {"RESP_FIRST", "RESP_MIDDLE"}
      <4> DEFINE a == q[1]
                 f == Cut(mtable[a].ev)
      <4>1. mtable' = [mtable EXCEPT ![a].ev = f] /\ ptr' = ptr /\ freeq' = freeq /\ a \in Slot
        BY <2>2, <2>3, <3>1
      <4>2. mtable[a].ev \in Event /\ mtable[a] \in MetaEntry
        BY <1>6, <4>1 DEF MetaEntry
      <4>3. f.req = mtable[a].ev.req /\ f.off = mtable[a].ev.off + 1
        BY <4>2 DEF Cut, Event
      <4> HIDE DEF f, a
      <4>4. \A i \in Slot : /\ mtable'[i].next = mtable[i].next /\ (mtable'[i].isTail <=> mtable[i].isTail)
                            /\ mtable'[i].ev = IF i = a THEN f ELSE mtable[i].ev
        BY <1>6, <4>1, <4>2 DEF MetaEntry
      <4>5. \A i \in 1 .. Len(q) : q[i] \in Slot
        BY <1>14
      <4>6. IsList(q, mtable', ptr', freeq')
        <5>1. \A i \in 1 .. Len(q) : mtable'[q[i]].next = mtable[q[i]].next
                                      /\ (mtable'[q[i]].isTail <=> mtable[q[i]].isTail)
          BY <4>4, <4>5
        <5>2. IsList(q, mtable', ptr, freeq)
          BY <1>13, <5>1, ListRelabelled
        <5> QED
          BY <4>1, <5>2
      <4>7. \A k \in 2 .. Len(q) : k \in 1 .. Len(q) /\ q[k] # a
        <5>1. \A k \in 2 .. Len(q) : k \in 1 .. Len(q) /\ k # 1
          BY <1>14
        <5> QED
          BY <1>13, <2>3, <5>1 DEF IsList, a
      <4>8. \A k \in 1 .. Len(q) : mtable'[q[k]].ev.req = mtable[q[k]].ev.req
        BY <4>3, <4>4, <4>5
      <4>9. mtable'[q[1]].ev.off = mtable[q[1]].ev.off + 1
        BY <4>1, <4>3, <4>4 DEF a
      <4>10. \A k \in 2 .. Len(q) : mtable'[q[k]].ev.off = mtable[q[k]].ev.off
        BY <4>4, <4>5, <4>7
      <4>11. FollowsAt(h, q, reqs, psnOf, next, mtable', insq, Updated + 1, early)
        <5>1. o < Pkgs(reqs[r]) - 1
          BY <1>18, <3>1
        <5> QED
          BY <1>5, <1>14, <1>15, <1>19, <2>3, <4>8, <4>9, <4>10, <5>1, FollowsCut
      <4>12. Follows(q, reqs', psnOf', next', mtable', insq', Updated', early')
        BY <1>1, <1>9, <1>11, <1>16, <2>1, <4>11 DEF Follows
      <4> QED
        BY <1>20, <4>6, <4>12 DEF Listed
    <3>2. CASE op \notin {"RESP_FIRST", "RESP_MIDDLE"}
      <4>1. IsList(Tail(q), mtable', ptr', freeq') /\ mtable' = mtable
        <5>1. /\ ptr' = [ptr EXCEPT !.head = mtable[ptr.head].next, !.valid = ~mtable[ptr.head].isTail]
              /\ freeq' = Append(freeq, ptr.head) /\ mtable' = mtable
          BY <2>2, <3>2
        <5>2. IsList(q, mtable, ptr, freeq)
          BY <1>13
        <5> QED
          BY <1>6, <1>23, <5>1, <5>2, ListPopped
      <4>2. FollowsAt(h + 1, Tail(q), reqs, psnOf, next, mtable, insq, Updated + 1, early)
        <5>1. o = Pkgs(reqs[r]) - 1
          BY <1>18, <3>2
        <5> QED
          BY <1>5, <1>14, <1>15, <1>19, <2>3, <5>1, FollowsReleased
      <4>3. Len(reqs) - Len(insq) - Len(Tail(q)) = h + 1
        <5> DEFINE l == Len(Tail(q))
        <5>1. l = Len(q) - 1
          BY <1>14, <2>3, Tailed
        <5>2. Len(reqs) \in Int /\ Len(insq) \in Int /\ Len(q) \in Int
          BY <1>5, <1>14
        <5> HIDE DEF l
        <5>3. Len(reqs) - Len(insq) - l = h + 1
          BY ONLY <1>16, <5>1, <5>2
        <5> QED
          BY <5>3 DEF l
      <4>4. Follows(Tail(q), reqs', psnOf', next', mtable', insq', Updated', early')
        BY <1>1, <1>9, <1>11, <2>1, <4>1, <4>2, <4>3 DEF Follows
      <4> QED
        BY <1>20, <4>1, <4>4 DEF Listed
    <3> QED
      BY <3>1, <3>2
  <2>6. rdinit \in Seq(Nat \X Int) /\ rdinit' \in Seq(Nat \X Int)
    <3>1. rdinit \in Seq(Nat \X Int)
      BY <1>0 DEF Reading
    <3>2. e.ev.req \in Nat /\ e.ev.off \in Int
      <4>1. e.ev \in Event
        BY <1>6, <2>3 DEF MetaEntry
      <4> QED
        BY <4>1, RoceAssumption DEF Event
    <3>3. <<e.ev.req, e.ev.off>> \in Nat \X Int
      BY <3>2
    <3> DEFINE a == <<e.ev.req, e.ev.off>>
    <3> HIDE DEF a, e
    <3>4. Append(rdinit, a) \in Seq(Nat \X Int)
      BY <3>1, <3>3, Appended DEF a
    <3> QED
      BY <2>2, <3>1, <3>4 DEF a
  <2>7. ASSUME \A i \in 1 .. Len(reqs) : reqs[i] = "READ", ~early
        PROVE  \E g : Landing(g, reqs, psnOf, next, Updated + 1, Stored, rdinit', adma)
    <3>1. PICK g : Landing(g, reqs, psnOf, next, Updated, Stored, rdinit, adma)
      BY <1>0, <2>7 DEF Reading
    <3>2. e.ev.req = r /\ e.ev.off = o
      BY <2>3, <2>4, <2>7 DEF HeadIs
    <3>3. reqs[r] = "READ"
      BY <1>19, <2>7 DEF Place
    <3>4. rdinit' = IF o = 0 THEN Append(rdinit, <<r, 0>>) ELSE rdinit
      <4> HIDE DEF e
      <4> QED
        BY <1>18, <2>2, <3>2, <3>3
    <3>5. Landing(g, reqs, psnOf, next, Updated + 1, Stored, rdinit', adma)
      BY <1>5, <1>19, <2>6, <3>1, <3>4, Addressed
    <3> QED
      BY <3>5
  <2>8. Reading'
    <3>1. (\A i \in 1 .. Len(reqs') : reqs'[i] = "READ") /\ ~early' =>
            \E g : Landing(g, reqs', psnOf', next', Updated', Stored', rdinit', adma')
      BY <1>1, <1>9, <1>11, <1>12, <2>1, <2>7
    <3>2. ~early' => \A d \in landed' : d.at = d.data
      BY <1>0, <1>1, <2>1 DEF Reading
    <3> QED
      BY <1>21, <2>6, <3>1, <3>2 DEF Reading
  <2> QED
    BY <2>5, <2>8
<1> QED
  BY <1>2, <1>3, <1>4, <1>22, <1>23 DEF Flow

\* A request joins the list as it was issued.
LEMMA FollowsInserted ==
  ASSUME NEW R \in Seq(KindSet), NEW S \in Seq(Psn), NEW n \in Psn, InPhase(R, S, n),
         NEW q \in Seq(Slot), NEW mt, NEW iq \in Seq(Event), iq # <<>>, NEW u \in Int, NEW ea,
         NEW h \in Nat, h + Len(q) = Len(R) - Len(iq), FollowsAt(h, q, R, S, n, mt, iq, u, ea),
         NEW x \in Slot, NEW mn, mn[x].ev = Head(iq), \A k \in 1 .. Len(q) : mn[q[k]].ev = mt[q[k]].ev
  PROVE  FollowsAt(h, Append(q, x), R, S, n, mn, Tail(iq), u, ea)
<1> DEFINE t == Append(q, x)
           b == Len(R) - Len(iq)
           w == Tail(iq)
<1>1. /\ FullAt(iq, b, R, S) /\ Start(h, S, n) <= u /\ (\A k \in 1 .. Len(q) : mt[q[k]].ev.req = h + k)
      /\ ~ea => /\ q = <<>> => Start(h, S, n) = u
                /\ q # <<>> => mt[q[1]].ev.off = u - Start(h, S, n) /\ u < Start(h + 1, S, n)
                /\ \A k \in 2 .. Len(q) : mt[q[k]].ev.off = 0
  BY DEF FollowsAt
<1>2. Len(q) \in Nat /\ Len(iq) \in Nat /\ Len(R) \in Nat /\ b \in Int
  OBVIOUS
<1>3. /\ t \in Seq(Slot) /\ Len(t) = Len(q) + 1 /\ t[Len(q) + 1] = x
      /\ \A k \in 1 .. Len(q) : t[k] = q[k]
  BY Appended
<1>4. Len(w) = Len(iq) - 1
  BY Tailed
<1>5. b + 1 \in 1 .. Len(R) /\ Head(iq) = Full(b + 1, R, S) /\ FullAt(w, b + 1, R, S)
  BY <1>1, <1>2, FullTaken
<1>6. Len(R) - Len(w) = b + 1 /\ b = h + Len(q)
  BY <1>2, <1>4
<1> HIDE DEF t, b, w
<1>7. FullAt(w, Len(R) - Len(w), R, S)
  BY <1>5, <1>6
<1>8. mn[x].ev.req = h + (Len(q) + 1) /\ mn[x].ev.off = 0
  <2>1. mn[x].ev = Full(b + 1, R, S) /\ b + 1 = h + (Len(q) + 1)
    BY <1>2, <1>5, <1>6
  <2> QED
    BY <2>1 DEF Full
<1>9. \A k \in 1 .. Len(t) : k \in 1 .. Len(q) \/ k = Len(q) + 1
  BY <1>2, <1>3
<1>10. \A k \in 1 .. Len(t) : mn[t[k]].ev.req = h + k
  BY <1>1, <1>3, <1>8, <1>9
<1>11. ASSUME ~ea
       PROVE  /\ mn[t[1]].ev.off = u - Start(h, S, n) /\ u < Start(h + 1, S, n)
              /\ \A k \in 2 .. Len(t) : mn[t[k]].ev.off = 0
  <2>1. CASE q = <<>>
    <3>1. Len(q) = 0 /\ t[1] = x /\ Len(t) = 1
      BY <1>3, <2>1
    <3>2. h \in 0 .. Len(R) /\ h + 1 \in 0 .. Len(R)
      BY <1>2, <1>5, <1>6, <3>1
    <3>3. Start(h, S, n) < Start(h + 1, S, n) /\ Start(h, S, n) \in Nat
      BY <3>2, StartIs
    <3> QED
      BY <1>1, <1>8, <1>11, <2>1, <3>1, <3>3
  <2>2. CASE q # <<>>
    <3>1. 1 \in 1 .. Len(q) /\ t[1] = q[1]
      BY <1>2, <1>3, <2>2
    <3>2. \A k \in 2 .. Len(t) : k \in 1 .. Len(t) /\ (k \in 2 .. Len(q) \/ k = Len(q) + 1)
      BY <1>2, <1>3
    <3>3. \A k \in 2 .. Len(q) : k \in 1 .. Len(q)
      BY <1>2
    <3>4. \A k \in 2 .. Len(t) : mn[t[k]].ev.off = 0
      BY <1>1, <1>3, <1>8, <1>11, <3>2, <3>3
    <3> QED
      BY <1>1, <1>11, <2>2, <3>1, <3>4
  <2> QED
    BY <2>1, <2>2
<1>12. t # <<>>
  BY <1>2, <1>3
<1>13. FollowsAt(h, t, R, S, n, mn, w, u, ea)
  BY <1>1, <1>7, <1>10, <1>11, <1>12 DEF FollowsAt
<1> QED
  BY <1>13 DEF t, w

LEMMA RetransInsertFlows ==
  ASSUME RoceInv, Flow, RetransInsert
  PROVE  Flow'
<1>0. Quiet /\ Outbound /\ Inbound /\ Listed /\ Reading /\ Writing
  BY DEF Flow
<1>1. /\ UNCHANGED <<rt, updq, nakq, rtev, rdinit, early, expired, unack, arx, aexh, adma, landed>>
      /\ UNCHANGED <<txVars, rspVars, fwd, back, reqs, psnOf, next>>
      /\ insq # <<>> /\ insq' = Tail(insq)
  BY DEF RetransInsert, txVars, tmVars, rxVars, netVars
<1>2. Outbound' /\ Writing'
  BY <1>0, <1>1, ResponderFrame
<1>3. Inbound'
  BY <1>0, <1>1, InboundFrame
<1>4. Updated' = Updated /\ Stored' = Stored
  BY <1>1 DEF Updated, Stored
<1>5. Quiet' /\ Reading'
  BY <1>0, <1>1, <1>4 DEF Quiet, Reading
<1>6. /\ reqs \in Seq(KindSet) /\ psnOf \in Seq(Psn) /\ next \in Psn /\ InPhase(reqs, psnOf, next)
      /\ insq \in Seq(Event) /\ Len(insq) \in Nat /\ Len(reqs) \in Nat /\ Distance(unack) \in Nat
  BY FlowTypes
<1>7. updq \in Seq(OpSet) /\ OpsAt(updq, Updated, reqs, psnOf) /\ Updated \in Int
  BY <1>0, <1>6 DEF Listed, Updated
<1>8. PICK q : IsList(q, mtable, ptr, freeq) /\ Follows(q, reqs, psnOf, next, mtable, insq, Updated, early)
  BY <1>0 DEF Listed
<1> DEFINE h == Len(reqs) - Len(insq) - Len(q)
           x == Head(freeq)
           t == Append(q, x)
<1>9. q \in Seq(Slot) /\ Len(q) \in Nat /\ FollowsAt(h, q, reqs, psnOf, next, mtable, insq, Updated, early)
  BY <1>8 DEF IsList, Follows
<1>10. h \in Nat /\ h + Len(q) = Len(reqs) - Len(insq)
  <2>1. h >= 0
    BY <1>9 DEF FollowsAt
  <2> QED
    BY <1>6, <1>9, <2>1
<1>11. Linked(q, x, Head(insq), mtable, mtable', ptr', freeq')
  BY <1>8, InsertedList DEF RoceInv, Types
<1>12. /\ x \in Slot /\ mtable'[x].ev = Head(insq) /\ IsList(t, mtable', ptr', freeq')
       /\ \A k \in 1 .. Len(q) : mtable'[q[k]].ev = mtable[q[k]].ev
  BY <1>11 DEF Linked
<1>13. Len(t) = Len(q) + 1 /\ Len(Tail(insq)) = Len(insq) - 1
  BY <1>1, <1>6, <1>9, <1>12, Appended, Tailed
<1>14. h = Len(reqs) - Len(insq) - Len(q)
  OBVIOUS
<1> HIDE DEF h, x
<1>15. FollowsAt(h, t, reqs, psnOf, next, mtable', Tail(insq), Updated, early)
  BY <1>1, <1>6, <1>7, <1>9, <1>10, <1>12, FollowsInserted
<1> HIDE DEF t
<1>16. Len(reqs') - Len(insq') - Len(t) = h
  <2>1. Len(reqs') = Len(reqs) /\ Len(insq') = Len(insq) - 1
    BY <1>1, <1>13
  <2>2. Len(reqs) \in Int /\ Len(insq) \in Int /\ Len(q) \in Int
    BY <1>6, <1>9
  <2>3. Len(t) = Len(q) + 1
    BY <1>13
  <2> QED
    BY ONLY <1>14, <2>1, <2>2, <2>3
<1>17. Follows(t, reqs', psnOf', next', mtable', insq', Updated', early')
  BY <1>1, <1>4, <1>15, <1>16 DEF Follows
<1>18. Listed'
  BY <1>1, <1>4, <1>7, <1>12, <1>17 DEF Listed
<1> QED
  BY <1>2, <1>3, <1>5, <1>18 DEF Flow

\* The send queue carries the last packet of a write behind the first.
LEMMA LastBehindFirst ==
  ASSUME TxTypes, FirstLast(reqs), NEW k \in NextKinds
  PROVE  FirstLast(Append(reqs, k))
<1>1. PICK w \in Workloads : IsStrictPrefix(reqs, w) /\ k = w[Len(reqs) + 1]
  BY DEF NextKinds
<1>2. /\ w \in Seq(KindSet) /\ Len(w) \in Nat
      /\ \A i \in 1 .. Len(w) - 1 : w[i] = "FIRST" <=> w[i + 1] = "LAST"
      /\ w # <<>> => w[1] # "LAST"
  BY RoceAssumption DEF KindSet
<1>3. reqs \in Seq(KindSet) /\ Len(reqs) \in Nat /\ k \in KindSet
  BY NextKindsAre DEF TxTypes
<1>4. Len(reqs) <= Len(w) /\ SubSeq(reqs, 1, Len(reqs)) = SubSeq(w, 1, Len(reqs)) /\ reqs # w
  BY <1>1 DEF IsStrictPrefix, IsPrefix
<1>5. SubSeq(reqs, 1, Len(reqs)) = reqs /\ SubSeq(w, 1, Len(w)) = w
  BY <1>2, <1>3
<1>6. Len(reqs) # Len(w)
  <2> SUFFICES ASSUME Len(reqs) = Len(w) PROVE FALSE
    OBVIOUS
  <2> QED
    BY <1>4, <1>5
<1>7. \A i \in 1 .. Len(reqs) : reqs[i] = w[i]
  BY <1>2, <1>3, <1>4, <1>5
<1> DEFINE R == Append(reqs, k)
<1>8. Len(R) = Len(reqs) + 1 /\ (\A i \in 1 .. Len(reqs) : R[i] = reqs[i]) /\ R[Len(reqs) + 1] = k
  BY <1>3, Appended
<1> HIDE DEF R
<1>9. ASSUME NEW i \in 1 .. Len(R) - 1, R[i + 1] = "LAST" PROVE R[i] = "FIRST"
  <2>1. i \in 1 .. Len(reqs) /\ R[i] = reqs[i]
    BY <1>3, <1>8
  <2>2. CASE i = Len(reqs)
    <3>1. w[i + 1] = "LAST" /\ i \in 1 .. Len(w) - 1
      BY <1>1, <1>2, <1>3, <1>4, <1>6, <1>8, <1>9, <2>1, <2>2
    <3> QED
      BY <1>2, <1>7, <2>1, <3>1
  <2>3. CASE i # Len(reqs)
    <3>1. i \in 1 .. Len(reqs) - 1 /\ i + 1 \in 1 .. Len(reqs)
      BY <1>3, <2>1, <2>3
    <3> QED
      BY <1>8, <1>9, <2>1, <3>1 DEF FirstLast
  <2> QED
    BY <2>2, <2>3
<1>10. R[1] # "LAST"
  <2>1. CASE Len(reqs) = 0
    <3>1. R[1] = w[1] /\ Len(w) > 0
      BY <1>1, <1>2, <1>4, <1>6, <1>8, <2>1
    <3> QED
      BY <1>2, <3>1
  <2>2. CASE Len(reqs) # 0
    <3>1. 1 \in 1 .. Len(reqs) /\ Len(reqs) > 0
      BY <1>3, <2>2
    <3> QED
      BY <1>8, <3>1 DEF FirstLast
  <2> QED
    BY <2>1, <2>2
<1>11. FirstLast(R)
  BY <1>9, <1>10 DEF FirstLast
<1> QED
  BY <1>11 DEF R

\* The list and the addresses keep their places when a request is issued.
LEMMA FollowsNew ==
  ASSUME NEW R \in Seq(KindSet), NEW S \in Seq(Psn), NEW n \in Psn, InPhase(R, S, n), NEW k \in KindSet, NEW m,
         NEW q \in Seq(Slot), NEW mt, NEW iq \in Seq(Event), NEW u, NEW ea, NEW e \in Event,
         e = Full(Len(R) + 1, Append(R, k), Append(S, n)),
         NEW h \in Nat, h + Len(q) = Len(R) - Len(iq), FollowsAt(h, q, R, S, n, mt, iq, u, ea)
  PROVE  FollowsAt(h, q, Append(R, k), Append(S, n), m, mt, Append(iq, e), u, ea)
<1> DEFINE A == Append(R, k)
           B == Append(S, n)
           w == Append(iq, e)
           b == Len(R) - Len(iq)
<1>1. /\ FullAt(iq, b, R, S) /\ Start(h, S, n) <= u /\ (\A i \in 1 .. Len(q) : mt[q[i]].ev.req = h + i)
      /\ ~ea => /\ q = <<>> => Start(h, S, n) = u
                /\ q # <<>> => mt[q[1]].ev.off = u - Start(h, S, n) /\ u < Start(h + 1, S, n)
                /\ \A i \in 2 .. Len(q) : mt[q[i]].ev.off = 0
  BY DEF FollowsAt
<1>2. Len(q) \in Nat /\ Len(iq) \in Nat /\ Len(R) \in Nat /\ b \in Int
  OBVIOUS
<1>3. Len(A) = Len(R) + 1 /\ Len(w) = Len(iq) + 1
  BY Appended
<1>4. FullAt(iq, b, A, B)
  BY <1>1, QueuesNew
<1>5. b + Len(iq) + 1 = Len(R) + 1 /\ Len(A) - Len(w) = b
  BY <1>2, <1>3
<1>6. \A x \in 0 .. Len(R) : Start(x, B, m) = Start(x, S, n)
  BY StartNew
<1>7. e = Full(Len(R) + 1, A, B)
  OBVIOUS
<1> HIDE DEF A, B, b
<1>8. FullAt(w, b, A, B)
  <2>1. b + Len(iq) + 1 \in 1 .. Len(A) /\ e = Full(b + Len(iq) + 1, A, B)
    BY <1>2, <1>3, <1>5, <1>7
  <2> QED
    BY <1>2, <1>4, <2>1, FullAdded
<1> HIDE DEF w
<1>9. FullAt(w, Len(A) - Len(w), A, B)
  BY <1>5, <1>8
<1>10. Start(h, B, m) = Start(h, S, n)
  <2>1. h \in 0 .. Len(R)
    BY <1>2
  <2> QED
    BY <1>6, <2>1
<1>11. q # <<>> => Start(h + 1, B, m) = Start(h + 1, S, n)
  <2> SUFFICES ASSUME q # <<>> PROVE Start(h + 1, B, m) = Start(h + 1, S, n)
    OBVIOUS
  <2>1. h + 1 \in 0 .. Len(R)
    BY <1>2
  <2> QED
    BY <1>6, <2>1
<1>12. FollowsAt(h, q, A, B, m, mt, w, u, ea)
  BY <1>1, <1>9, <1>10, <1>11 DEF FollowsAt
<1> QED
  BY <1>12 DEF A, B, w

LEMMA LandingNew ==
  ASSUME NEW R \in Seq(KindSet), NEW S \in Seq(Psn), NEW n \in Psn, InPhase(R, S, n), NEW k \in KindSet, NEW m,
         NEW g, NEW u, NEW e, NEW ri \in Seq(Nat \X Int), NEW ad, Landing(g, R, S, n, u, e, ri, ad)
  PROVE  Landing(g, Append(R, k), Append(S, n), m, u, e, ri, ad)
<1> DEFINE A == Append(R, k)
           B == Append(S, n)
           z == g + Len(ri)
<1>1. /\ g \in Nat /\ g + Len(ri) <= Len(R)
      /\ \A i \in 1 .. Len(ri) : ri[i] = <<g + i, 0>>
      /\ e <= Start(g, S, n) /\ (g > 0 => Start(g - 1, S, n) < e)
      /\ u <= Start(g + Len(ri), S, n) /\ (g + Len(ri) > 0 => Start((g + Len(ri)) - 1, S, n) < u)
      /\ g > 0 /\ e < Start(g, S, n) => ad = <<g, e - Start(g - 1, S, n)>>
  BY DEF Landing
<1>2. Len(ri) \in Nat /\ Len(R) \in Nat /\ Len(A) = Len(R) + 1
  BY Appended
<1>3. \A x \in 0 .. Len(R) : Start(x, B, m) = Start(x, S, n)
  BY StartNew
<1>4. g \in 0 .. Len(R) /\ z \in 0 .. Len(R) /\ (g > 0 => g - 1 \in 0 .. Len(R)) /\ (z > 0 => z - 1 \in 0 .. Len(R))
  BY <1>1, <1>2
<1>5. u <= Start(z, S, n) /\ (z > 0 => Start(z - 1, S, n) < u)
  BY <1>1
<1>6. z = g + Len(ri) /\ z <= Len(A)
  BY <1>1, <1>2
<1> HIDE DEF A, B, z
<1>7. /\ Start(g, B, m) = Start(g, S, n) /\ (g > 0 => Start(g - 1, B, m) = Start(g - 1, S, n))
      /\ Start(z, B, m) = Start(z, S, n) /\ (z > 0 => Start(z - 1, B, m) = Start(z - 1, S, n))
  BY <1>3, <1>4
<1>8. u <= Start(z, B, m) /\ (z > 0 => Start(z - 1, B, m) < u)
  BY <1>5, <1>7
<1>9. Landing(g, A, B, m, u, e, ri, ad)
  BY <1>1, <1>6, <1>7, <1>8 DEF Landing
<1> QED
  BY <1>9 DEF A, B

LEMMA LocalReqFlows ==
  ASSUME RoceInv, Flow, LocalReq
  PROVE  Flow'
<1>0. Quiet /\ Outbound /\ Inbound /\ Listed /\ Reading /\ Writing
  BY DEF Flow
<1>1. PICK k \in NextKinds :
        /\ reqs' = Append(reqs, k) /\ psnOf' = Append(psnOf, next)
        /\ fwd' = Append(fwd, GenerateIbh(k)) /\ insq' = Append(insq, GenerateIbh(k))
  BY DEF LocalReq
<1>2. /\ UNCHANGED <<expired, mtable, ptr, freeq, rt, updq, nakq, rtev, rdinit, early, back>>
      /\ UNCHANGED <<unack, arx, aexh, adma, landed>>
      /\ UNCHANGED <<epsn, nakOk, bexh, bdma, ackq, readq, written>>
  BY DEF LocalReq, rxVars, rspVars
<1>3. k \in KindSet /\ TxTypes
  BY NextKindsAre DEF RoceInv, Types
<1>4. /\ reqs \in Seq(KindSet) /\ psnOf \in Seq(Psn) /\ next \in Psn /\ InPhase(reqs, psnOf, next)
      /\ fwd \in Seq(Event) /\ insq \in Seq(Event) /\ bexh \in Seq(Event)
      /\ Len(fwd) \in Nat /\ Len(bexh) \in Nat /\ Len(insq) \in Nat /\ Len(reqs) \in Nat
      /\ Distance(unack) \in Nat
  BY FlowTypes
<1> DEFINE A == Append(reqs, k)
           B == Append(psnOf, next)
           e == GenerateIbh(k)
<1>5. /\ Len(A) = Len(reqs) + 1 /\ A[Len(reqs) + 1] = k /\ B[Len(reqs) + 1] = next
      /\ \A i \in 1 .. Len(reqs) : A[i] = reqs[i]
  BY <1>3, <1>4, Extended
<1>6. e = Full(Len(reqs) + 1, A, B)
  BY <1>5 DEF GenerateIbh, Full
<1>7. e \in Event
  <2>1. Len(reqs) + 1 \in 0 .. MaxReq
    BY <1>3, <1>4, Modulus, NextKindsAre
  <2>2. Pkgs(k) \in Int /\ k \in OpSet
    BY <1>3, PkgsIs DEF KindSet, OpSet
  <2> QED
    BY <2>1, <2>2, <1>4 DEF Event, OpSet, GenerateIbh
<1>8. \A x \in 0 .. Len(reqs) : Start(x, B, next') = Start(x, psnOf, next)
  BY <1>4, StartNew
<1>9. \A s, d : /\ RespAt(s, d, reqs, psnOf) => RespAt(s, d, A, B)
                /\ OpsAt(s, d, reqs, psnOf) => OpsAt(s, d, A, B)
                /\ FullAt(s, d, reqs, psnOf) => FullAt(s, d, A, B)
  BY <1>3, <1>4, QueuesNew
<1>10. reqs' = A /\ psnOf' = B /\ fwd' = Append(fwd, e) /\ insq' = Append(insq, e)
  BY <1>1
<1>11. Len(fwd') = Len(fwd) + 1
  BY <1>4, <1>7, <1>10, Appended
<1>12. FirstLast(A)
  BY <1>0, <1>3, LastBehindFirst DEF Writing
<1>13. \A p, d : Resp(p, d, reqs, psnOf) => Resp(p, d, A, B)
  BY <1>3, <1>4, RespNew
<1> HIDE DEF A, B, e
<1>14. Asked' = Asked /\ Run' = Run /\ Asked \in 0 .. Len(reqs) /\ Run \in 0 .. Len(reqs)
  <2>1. Asked' = Asked
    BY <1>4, <1>5, <1>10, <1>11 DEF Asked
  <2> QED
    BY <1>0, <1>2, <2>1, Numbers DEF Run
<1>15. Quiet'
  BY <1>0, <1>2 DEF Quiet
<1>16. Outbound'
  <2>1. FullAt(fwd, Asked, A, B) /\ FullAt(bexh, Run, A, B)
    BY <1>0, <1>9 DEF Outbound
  <2>2. Asked + Len(fwd) + 1 = Len(reqs) + 1
    BY <1>4 DEF Asked
  <2>3. Asked + Len(fwd) + 1 \in 1 .. Len(A) /\ e = Full(Asked + Len(fwd) + 1, A, B)
    BY <1>4, <1>5, <1>6, <2>2
  <2>4. FullAt(Append(fwd, e), Asked, A, B)
    <3>1. Asked \in Int
      BY <1>14
    <3> QED
      BY <1>4, <1>7, <2>1, <2>3, <3>1, FullAdded
  <2>5. Distance(epsn) = Start(Asked, B, next')
    BY <1>0, <1>8, <1>14 DEF Outbound
  <2> QED
    BY <1>0, <1>2, <1>10, <1>14, <2>1, <2>4, <2>5 DEF Outbound
<1>17. Said' = Said
  BY <1>2, <1>8, <1>10, <1>14 DEF Said
<1>18. Inbound'
  <2>1. RespAt(ackq, Said, A, B) /\ RespAt(readq, Said, A, B) /\ RespAt(back, Said - Len(back), A, B)
    BY <1>0, <1>9 DEF Inbound
  <2>2. arx # None => Resp(arx.pkt, Distance(unack), A, B)
    BY <1>0, <1>13 DEF Inbound
  <2> QED
    BY <1>0, <1>2, <1>10, <1>17, <2>1, <2>2 DEF Inbound
<1>19. Updated' = Updated /\ Stored' = Stored
  BY <1>2 DEF Updated, Stored
<1>20. Listed'
  <2>1. PICK q : IsList(q, mtable, ptr, freeq) /\ Follows(q, reqs, psnOf, next, mtable, insq, Updated, early)
    BY <1>0 DEF Listed
  <2> DEFINE h == Len(reqs) - Len(insq) - Len(q)
  <2>2. q \in Seq(Slot) /\ Len(q) \in Nat /\ FollowsAt(h, q, reqs, psnOf, next, mtable, insq, Updated, early)
    BY <2>1 DEF IsList, Follows
  <2>3. h \in Nat /\ h + Len(q) = Len(reqs) - Len(insq)
    <3>1. h >= 0
      BY <2>2 DEF FollowsAt
    <3> QED
      BY <1>4, <2>2, <3>1
  <2>4. Len(A) - Len(insq') - Len(q) = h
    <3>1. Len(insq') = Len(insq) + 1
      BY <1>4, <1>7, <1>10, Appended
    <3> QED
      BY <1>4, <1>5, <2>2, <3>1
  <2> HIDE DEF h
  <2>5. FollowsAt(h, q, A, B, next', mtable, Append(insq, e), Updated, early)
    BY <1>3, <1>4, <1>6, <1>7, <2>2, <2>3, FollowsNew DEF A, B
  <2>6. Follows(q, reqs', psnOf', next', mtable', insq', Updated', early')
    BY <1>2, <1>10, <1>19, <2>4, <2>5 DEF Follows
  <2>7. updq' \in Seq(OpSet) /\ OpsAt(updq', Updated', reqs', psnOf')
    BY <1>0, <1>2, <1>9, <1>10, <1>19 DEF Listed
  <2> QED
    BY <1>2, <2>1, <2>6, <2>7 DEF Listed
<1>21. Reading'
  <2>1. rdinit' \in Seq(Nat \X Int) /\ (~early' => \A d \in landed' : d.at = d.data)
    BY <1>0, <1>2 DEF Reading
  <2>2. RespAt(aexh', Stored', reqs', psnOf') /\ \A i \in 1 .. Len(aexh') : aexh'[i].op # "ACK"
    BY <1>0, <1>2, <1>9, <1>10, <1>19 DEF Reading
  <2>3. ASSUME \A i \in 1 .. Len(A) : A[i] = "READ", ~early
        PROVE  \E g : Landing(g, A, B, next', Updated, Stored, rdinit, adma)
    <3>1. \A i \in 1 .. Len(reqs) : i \in 1 .. Len(A) /\ A[i] = reqs[i]
      BY <1>4, <1>5
    <3>2. PICK g : Landing(g, reqs, psnOf, next, Updated, Stored, rdinit, adma)
      BY <1>0, <2>3, <3>1 DEF Reading
    <3>3. rdinit \in Seq(Nat \X Int)
      BY <1>0 DEF Reading
    <3>4. Landing(g, A, B, next', Updated, Stored, rdinit, adma)
      BY <1>3, <1>4, <3>2, <3>3, LandingNew DEF A, B
    <3> QED
      BY <3>4
  <2>4. (\A i \in 1 .. Len(reqs') : reqs'[i] = "READ") /\ ~early' =>
          \E g : Landing(g, reqs', psnOf', next', Updated', Stored', rdinit', adma')
    BY <1>2, <1>10, <1>19, <2>3
  <2> QED
    BY <2>1, <2>2, <2>4 DEF Reading
<1>22. Writing'
  <2>1. ASSUME Run > 0 PROVE A[Run] = reqs[Run]
    <3>1. Run \in 0 .. Len(reqs) /\ Len(reqs) \in Nat
      BY <1>4, <1>14
    <3>2. Run \in 1 .. Len(reqs)
      BY ONLY <2>1, <3>1
    <3> QED
      BY <1>5, <3>2
  <2> QED
    BY <1>0, <1>2, <1>10, <1>12, <1>14, <2>1 DEF Writing
<1> QED
  BY <1>15, <1>16, <1>18, <1>20, <1>21, <1>22 DEF Flow

\* Reads that are mixed with others stay so.
LEMMA MixedBefore ==
  ASSUME RoceInv, LocalReq, Undisturbed'
  PROVE  Undisturbed
<1>1. PICK k \in NextKinds : reqs' = Append(reqs, k)
  BY DEF LocalReq
<1>2. late' = late /\ faults' = faults
  BY DEF LocalReq
<1>3. reqs \in Seq(KindSet) /\ Len(reqs) \in Nat /\ k \in KindSet
  BY FlowTypes, NextKindsAre DEF RoceInv, Types
<1>4. \A i \in 1 .. Len(reqs) : i \in 1 .. Len(reqs') /\ reqs'[i] = reqs[i]
  BY <1>1, <1>3, Appended
<1> QED
  BY <1>2, <1>4 DEF Undisturbed

\* A connection that nothing disturbed so far was not disturbed before.
LEMMA StillUndisturbed ==
  ASSUME RoceInv, Next, Undisturbed'
  PROVE  Undisturbed /\ ~TimerExpires /\ ~Fault
<1>1. faults \in Nat /\ late \in Nat /\ faults' = 0 /\ late' = 0
  BY FlowTypes DEF Undisturbed
<1>2. ~TimerExpires
  <2> SUFFICES ASSUME TimerExpires PROVE FALSE
    OBVIOUS
  <2>1. late' = late + 1
    BY DEF TimerExpires
  <2> QED
    BY <1>1, <2>1
<1>3. ~Fault
  <2> SUFFICES ASSUME Fault PROVE FALSE
    OBVIOUS
  <2>1. faults' = faults + 1
    BY DEF Fault
  <2> QED
    BY <1>1, <2>1
<1>4. CASE LocalReq
  BY <1>2, <1>3, <1>4, MixedBefore
<1>5. ASSUME UNCHANGED <<reqs, late, faults>> PROVE Undisturbed
  BY <1>5 DEF Undisturbed
<1>6. CASE LocalRetrans \/ RetransNak \/ RetransTimer \/ RetransInsert
  <2>1. UNCHANGED <<reqs, late, faults>>
    BY <1>6 DEF LocalRetrans, RetransNak, RetransTimer, RetransInsert, txVars, tmVars, netVars
  <2> QED
    BY <1>2, <1>3, <1>5, <2>1
<1>7. CASE RetransUpdate
  <2>1. UNCHANGED <<reqs, late, faults>>
    BY <1>7 DEF RetransUpdate, txVars, tmVars, netVars
  <2> QED
    BY <1>2, <1>3, <1>5, <2>1
<1>8. CASE RxLoad \/ RxAccept \/ RxDrop \/ RxExh
  <2>1. UNCHANGED <<reqs, late, faults>>
    BY <1>8 DEF RxLoad, RxAccept, RxDrop, RxExh, txVars, tmVars, netVars
  <2> QED
    BY <1>2, <1>3, <1>5, <2>1
<1>9. CASE RespExpected \/ RespDuplicate \/ RespInvalid \/ RespExh \/ RespSend
  <2>1. UNCHANGED <<reqs, late, faults>>
    BY <1>9 DEF RespExpected, RespDuplicate, RespInvalid, RespExh, RespSend, txVars, tmVars, netVars
  <2> QED
    BY <1>2, <1>3, <1>5, <2>1
<1> QED
  BY <1>2, <1>3, <1>4, <1>6, <1>7, <1>8, <1>9 DEF Next

\* Nothing is retransmitted, dropped or answered as a duplicate.
LEMMA NothingRepeated ==
  ASSUME RoceInv, Flow
  PROVE  ~LocalRetrans /\ ~RetransNak /\ ~RetransTimer /\ ~RxDrop /\ ~RespDuplicate /\ ~RespInvalid
<1>1. Quiet /\ Outbound /\ Inbound
  BY DEF Flow
<1>2. ~LocalRetrans /\ ~RetransNak /\ ~RetransTimer
  BY <1>1 DEF Quiet, LocalRetrans, RetransNak, RetransTimer
<1>3. ~RespDuplicate /\ ~RespInvalid
  BY <1>1, HeadExpected DEF RespDuplicate, RespInvalid
<1>4. ~RxDrop
  <2> SUFFICES ASSUME RxDrop PROVE FALSE
    OBVIOUS
  <2>1. arx # None /\ arx.pkt.psn # arx.epsn
    BY DEF RxDrop
  <2>2. arx.epsn = unack /\ Resp(arx.pkt, Distance(unack), reqs, psnOf)
    BY <1>1, <2>1 DEF Inbound
  <2>3. arx.pkt.psn \in Psn /\ Distance(arx.pkt.psn) = Distance(unack) /\ unack \in Psn
    BY <2>2, FlowTypes DEF Resp
  <2>4. arx.pkt.psn = unack
    BY <2>3, SameDistance
  <2> QED
    BY <2>1, <2>2, <2>4
<1> QED
  BY <1>2, <1>3, <1>4

LEMMA InitFlows == Init => Flow
<1> SUFFICES ASSUME Init PROVE Flow
  OBVIOUS
<1>1. /\ reqs = <<>> /\ next = StartPsn /\ unack = StartPsn /\ insq = <<>> /\ ptr.valid = FALSE
      /\ rt = "MAIN" /\ updq = <<>> /\ nakq = <<>> /\ expired = FALSE /\ rtev = <<>> /\ rdinit = <<>>
      /\ arx = None /\ aexh = <<>> /\ epsn = StartPsn /\ bexh = <<>> /\ ackq = <<>> /\ readq = <<>>
      /\ fwd = <<>> /\ back = <<>> /\ psnOf = <<>> /\ written = <<>> /\ landed = {}
  BY DEF Init
<1>2. RoceInv
  BY InitInv
<1> DEFINE d == Distance(StartPsn)
<1>3. d \in Nat
  BY <1>1, <1>2, FlowTypes
<1>4. Start(0, psnOf, next) = d
  BY <1>1 DEF Start
<1> HIDE DEF d
<1>5. Quiet
  BY <1>1 DEF Quiet
<1>6. Asked = 0 /\ Run = 0
  <2>1. Len(reqs) = 0 /\ Len(fwd) = 0 /\ Len(bexh) = 0
    BY <1>1
  <2> QED
    BY <2>1 DEF Asked, Run
<1>7. Outbound
  BY <1>1, <1>4, <1>6 DEF Outbound, FullAt, d
<1>8. Said = d /\ Updated = d /\ Stored = d
  BY <1>1, <1>3, <1>4, <1>6 DEF Said, Updated, Stored, d
<1>9. Inbound
  <2>1. Len(back) = 0 /\ Said - Len(back) = d
    BY <1>1, <1>3, <1>8
  <2> QED
    BY <1>1, <1>8, <2>1 DEF Inbound, RespAt, d
<1>10. Listed
  <2>1. PICK q : IsList(q, mtable, ptr, freeq)
    BY <1>2 DEF RoceInv, ListInv
  <2>2. q \in Seq(Slot) /\ q = <<>>
    BY <1>1, <2>1 DEF IsList
  <2>3. FollowsAt(0, q, reqs, psnOf, next, mtable, insq, d, early)
    BY <1>1, <1>3, <1>4, <2>2 DEF FollowsAt, FullAt
  <2>4. Len(reqs) - Len(insq) - Len(q) = 0
    <3>1. Len(reqs) = 0 /\ Len(insq) = 0 /\ Len(q) = 0
      BY <1>1, <2>2
    <3> QED
      BY <3>1
  <2>5. Follows(q, reqs, psnOf, next, mtable, insq, Updated, early)
    BY <1>8, <2>3, <2>4 DEF Follows
  <2> QED
    BY <1>1, <2>1, <2>5 DEF Listed, OpsAt
<1>11. Reading
  <2>1. Landing(0, reqs, psnOf, next, d, d, rdinit, adma)
    BY <1>1, <1>3, <1>4 DEF Landing
  <2> QED
    BY <1>1, <1>8, <2>1 DEF Reading, RespAt
<1>12. Writing
  BY <1>1, <1>6 DEF Writing, FirstLast, Range
<1> QED
  BY <1>5, <1>7, <1>9, <1>10, <1>11, <1>12 DEF Flow

LEMMA StutterFlows ==
  ASSUME Flow, UNCHANGED vars
  PROVE  Flow'
<1>0. Quiet /\ Outbound /\ Inbound /\ Listed /\ Reading /\ Writing
  BY DEF Flow
<1>1. UNCHANGED <<txVars, rtVars, tmVars, rxVars, rspVars, netVars>>
  BY DEF vars
<1>2. Quiet' /\ Listed' /\ Reading'
  BY <1>0, <1>1, RequesterFrame
<1>3. UNCHANGED <<txVars, rspVars, fwd, back, unack, arx>>
  BY <1>1 DEF netVars, rxVars
<1>4. Outbound' /\ Writing' /\ Inbound'
  BY <1>0, <1>3, ResponderFrame, InboundFrame
<1> QED
  BY <1>2, <1>4 DEF Flow

\* The invariant of the undisturbed connection.
FlowKept == Undisturbed => Flow
LEMMA NextFlows ==
  ASSUME RoceInv, EarlyKnown, FlowKept, [Next]_vars
  PROVE  FlowKept'
<1>1. CASE UNCHANGED vars
  <2> SUFFICES ASSUME Undisturbed' PROVE Flow'
    BY DEF FlowKept
  <2>1. Undisturbed
    BY <1>1 DEF vars, txVars, tmVars, netVars, Undisturbed
  <2> QED
    BY <1>1, <2>1, StutterFlows DEF FlowKept
<1>2. CASE Next
  <2> SUFFICES ASSUME Undisturbed' PROVE Flow'
    BY DEF FlowKept
  <2>1. Undisturbed /\ ~TimerExpires /\ ~Fault
    BY <1>2, StillUndisturbed
  <2>2. Flow
    BY <2>1 DEF FlowKept
  <2>3. ~LocalRetrans /\ ~RetransNak /\ ~RetransTimer /\ ~RxDrop /\ ~RespDuplicate /\ ~RespInvalid
    BY <2>2, NothingRepeated
  <2> QED
    BY <1>2, <2>1, <2>2, <2>3, LocalReqFlows, RetransUpdateFlows, RetransInsertFlows, RxLoadFlows,
       RxAcceptFlows, RxExhFlows, RespExpectedFlows, RespExhFlows, RespSendFlows DEF Next
<1> QED
  BY <1>1, <1>2

LEMMA FlowAlways == Spec => [](RoceInv /\ EarlyKnown /\ FlowKept)
<1>1. Init => FlowKept
  BY InitFlows DEF FlowKept
<1>2. RoceInv /\ EarlyKnown /\ FlowKept /\ [Next]_vars => FlowKept'
  BY NextFlows
<1> QED
  BY <1>1, <1>2, Inductive, EarlyType, PTL DEF Spec

\* What has not been answered is in the list or on its way to it.
LEMMA OutstandingKept ==
  ASSUME RoceInv, Flow
  PROVE  Outstanding \subseteq {e.req : e \in Range(Chain) \cup Range(insq)}
<1>1. /\ reqs \in Seq(KindSet) /\ psnOf \in Seq(Psn) /\ next \in Psn /\ InPhase(reqs, psnOf, next)
      /\ insq \in Seq(Event) /\ Len(insq) \in Nat /\ Len(reqs) \in Nat /\ Distance(unack) \in Nat
  BY FlowTypes
<1>2. PICK q : IsList(q, mtable, ptr, freeq) /\ Follows(q, reqs, psnOf, next, mtable, insq, Updated, early)
  BY DEF Flow, Listed
<1> DEFINE h == Len(reqs) - Len(insq) - Len(q)
<1>3. q \in Seq(Slot) /\ Len(q) \in Nat /\ FollowsAt(h, q, reqs, psnOf, next, mtable, insq, Updated, early)
  BY <1>2 DEF IsList, Follows
<1>4. /\ h >= 0 /\ FullAt(insq, Len(reqs) - Len(insq), reqs, psnOf)
      /\ (\A k \in 1 .. Len(q) : mtable[q[k]].ev.req = h + k) /\ Start(h, psnOf, next) <= Updated
  BY <1>3 DEF FollowsAt
<1>5. h \in 0 .. Len(reqs) /\ h + Len(q) = Len(reqs) - Len(insq)
  BY <1>1, <1>3, <1>4
<1> HIDE DEF h
<1>6. Updated <= Distance(unack) /\ Updated \in Int
  <2>1. Len(updq) \in Nat
    BY DEF Flow, Listed
  <2> QED
    BY <1>1, <2>1 DEF Updated
<1>7. /\ Chain \in Seq(Event) /\ Len(Chain) = Len(q)
      /\ \A i \in 1 .. Len(q) : Chain[i] = mtable[q[i]].ev
  BY <1>2, ChainIs DEF RoceInv, Types, RtTypes
<1> SUFFICES ASSUME NEW i \in Outstanding
             PROVE  \E e \in Range(Chain) \cup Range(insq) : e.req = i
  OBVIOUS
<1>8. i \in 1 .. Len(reqs) /\ Distance(psnOf[i]) + Pkgs(reqs[i]) > Distance(unack)
  BY DEF Outstanding
<1>9. Distance(psnOf[i]) + Pkgs(reqs[i]) = Start(i, psnOf, next) /\ i \in 0 .. Len(reqs)
  <2>1. i - 1 \in 0 .. Len(reqs) - 1 /\ (i - 1) + 1 = i /\ i \in 0 .. Len(reqs)
    BY <1>1, <1>8
  <2>2. Start((i - 1) + 1, psnOf, next) = Start(i - 1, psnOf, next) + Pkgs(reqs[(i - 1) + 1])
    BY <1>1, <2>1, StartIs
  <2>3. Distance(psnOf[i]) = Start(i - 1, psnOf, next)
    BY <1>1, <1>8, StartIs
  <2> QED
    BY <2>1, <2>2, <2>3
<1>10. h < i
  <2>1. /\ \A x \in 0 .. Len(reqs) : Start(x, psnOf, next) \in Nat
        /\ \A x, y \in 0 .. Len(reqs) : x < y => Start(x, psnOf, next) < Start(y, psnOf, next)
    BY <1>1, StartIs
  <2>2. Start(h, psnOf, next) < Start(i, psnOf, next)
    <3>1. Start(h, psnOf, next) \in Nat /\ Start(i, psnOf, next) \in Nat /\ Start(i, psnOf, next) > Distance(unack)
      BY <1>5, <1>8, <1>9, <2>1
    <3> QED
      BY <1>1, <1>4, <1>6, <3>1
  <2>3. ~(i < h) /\ i # h
    BY <1>5, <1>9, <2>1, <2>2
  <2> QED
    BY <1>5, <1>9, <2>3
<1>11. CASE i <= h + Len(q)
  <2> DEFINE k == i - h
  <2>1. k \in 1 .. Len(q) /\ h + k = i
    BY <1>3, <1>5, <1>9, <1>10, <1>11
  <2> HIDE DEF k
  <2>2. Chain[k].req = i /\ Chain[k] \in Range(Chain)
    BY <1>4, <1>7, <2>1 DEF Range
  <2> QED
    BY <2>2
<1>12. CASE i > h + Len(q)
  <2> DEFINE b == Len(reqs) - Len(insq)
             k == i - b
  <2>1. k \in 1 .. Len(insq) /\ b + k = i
    BY <1>1, <1>5, <1>8, <1>12
  <2>2. FullAt(insq, b, reqs, psnOf)
    BY <1>4
  <2> HIDE DEF k, b
  <2>3. insq[k].req = i
    <3>1. insq[k] = Full(b + k, reqs, psnOf)
      BY <2>1, <2>2 DEF FullAt
    <3>2. insq[k] = Full(i, reqs, psnOf)
      BY <2>1, <3>1
    <3> QED
      BY <3>2 DEF Full
  <2>4. insq[k] \in Range(insq)
    BY <1>1, <2>1 DEF Range
  <2> QED
    BY <2>3, <2>4
<1> QED
  BY <1>3, <1>5, <1>9, <1>11, <1>12

\* As long as the network loses and reorders nothing and the timer does not
\* expire, for a queue pair that only reads or never does: the retransmitter
\* keeps every request without an answer, RETRANS_1 is never entered, a write
\* is stored at its address, and so is the data of a read unless its response
\* was there before its entry.
THEOREM ListCorrect == Spec => []ListFollows
<1>1. RoceInv /\ EarlyKnown /\ FlowKept => ListFollows
  <2> SUFFICES ASSUME RoceInv, FlowKept, Undisturbed
               PROVE  /\ rt = "MAIN"
                      /\ Outstanding \subseteq {e.req : e \in Range(Chain) \cup Range(insq)}
                      /\ \A d \in Range(written) : d.at = d.data
                      /\ ~early => \A d \in landed : d.at = d.data
    BY DEF ListFollows
  <2>1. Flow
    BY DEF FlowKept
  <2>2. rt = "MAIN" /\ (\A d \in Range(written) : d.at = d.data) /\ (~early => \A d \in landed : d.at = d.data)
    BY <2>1 DEF Flow, Quiet, Writing, Reading
  <2> QED
    BY <2>1, <2>2, OutstandingKept
<1> QED
  BY <1>1, FlowAlways, PTL
=============================================================================

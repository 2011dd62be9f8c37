---------------------- MODULE PendingAttestationsProofs ----------------------
(*****************************************************************************)
(* What the attestation handshake promises, for any number of nonces and key *)
(* exchanges, every capacity and every TTL; and what the start of the        *)
(* program keeps, for any number of failures and restarts.                   *)
(*                                                                           *)
(* The order of the list and the single use of a secret depend on each       *)
(* other: the list is in the order of the draws only because no two nonces   *)
(* hold the same draw, and a draw is held once only because it leaves the    *)
(* cache in the step that hands it to an exchange. Custody says where each   *)
(* secret is without counting; SecretUsedOnce follows from it.               *)
(*                                                                           *)
(* A process uses the enclave key and the JWT secret only once it has stored *)
(* them or read them from their rows, and what it holds then is what the row *)
(* holds (KeyInv, JwtInv).                                                   *)
(*****************************************************************************)
EXTENDS MCLive, FiniteSetTheorems, WellFoundedInduction, TLAPS

\* The clock readings that entries and the maintenance task hold are past.
ReadingsArePast == purge.at <= now /\ \A n \in Nonces : drawAt[n] <= now

\* The list orders the parked secrets by their draws, the later the younger.
ListIsDrawOrder ==
    /\ older \subseteq Pending \X Pending
    /\ \A a, b \in Pending : <<a, b>> \in older <=> parked[a] < parked[b]
    /\ \A a, b \in Pending : parked[a] < parked[b] => drawAt[a] <= drawAt[b]

\* A secret that was drawn is parked under one nonce, or with one exchange, or
\* has given one session.
Custody ==
    /\ \A n \in Nonces : parked[n] <= drawn
    /\ \A a, b \in Pending : parked[a] = parked[b] => a = b
    /\ \A x \in Exchanges : kx[x].secret <= drawn /\ (kx[x].pc = "taken" <=> kx[x].secret # 0)
    /\ \A x, y \in Exchanges : kx[x].secret # 0 /\ kx[x].secret = kx[y].secret => x = y
    /\ \A x \in Exchanges, n \in Pending : kx[x].secret # parked[n]
    /\ \A s \in 1 .. MaxSecrets :
         /\ sessions[s] <= 1
         /\ sessions[s] = 1 => /\ s <= drawn
                               /\ \A x \in Exchanges : kx[x].secret # s
                               /\ \A n \in Nonces : parked[n] # s

\* The inductive invariant.
PendingIInv == TypeOK /\ ReadingsArePast /\ ListIsDrawOrder /\ Custody /\ WithinCapacity
-----------------------------------------------------------------------------
(* A set without two different elements has at most one.                        *)
LEMMA AtMostOne ==
    ASSUME NEW S, \A a, b \in S : a = b
    PROVE  Cardinality(S) \in {0, 1} /\ (S = {} => Cardinality(S) = 0)
<1>1. CASE S = {}
  BY <1>1, FS_EmptySet
<1>2. CASE S # {}
  <2>1. PICK a \in S : TRUE
    BY <1>2
  <2>2. S = {a}
    BY <2>1
  <2> QED BY <2>2, <1>2, FS_Singleton
<1> QED BY <1>1, <1>2

(* A set of numbers that is not empty has a least one.                          *)
LEMMA LeastNumber ==
    ASSUME NEW S \in SUBSET Nat, S # {}
    PROVE  \E m \in S : \A k \in S : m <= k
<1> DEFINE Less == {p \in Nat \X Nat : p[1] < p[2]}
<1>1. IsWellFoundedOn(Less, Nat)
  BY NatLessThanWellFounded DEF OpToRel
<1>2. PICK m \in S : \A k \in S : <<k, m>> \notin Less
  <2> HIDE DEF Less
  <2> QED BY <1>1, WFMin
<1>3. \A k \in S : ~(k < m)
  BY <1>2
<1> QED BY <1>3

(* A cache that holds secrets has one that was drawn before all the others: the *)
(* entry pop_back finds.                                                        *)
LEMMA OldestExists ==
    ASSUME PendingIInv, Pending # {}
    PROVE  \E v \in Pending : IsOldest(older, Pending, v)
<1> DEFINE Draws == { parked[n] : n \in Pending }
<1>1. Draws \in SUBSET Nat /\ Draws # {}
  <2>1. \A n \in Pending : parked[n] \in Nat
    BY DEF PendingIInv, TypeOK, Pending
  <2> QED BY <2>1
<1>2. PICK v \in Pending : \A n \in Pending : parked[v] <= parked[n]
  <2>1. \E m \in Draws : \A k \in Draws : m <= k
    <3> HIDE DEF Draws
    <3> QED BY <1>1, LeastNumber
  <2> QED BY <2>1
<1>3. \A n \in Pending \ {v} : parked[v] < parked[n]
  BY <1>2 DEF PendingIInv, TypeOK, Custody, Pending
<1> QED BY <1>3 DEF PendingIInv, ListIsDrawOrder, IsOldest

(* The fixed capacity is finite and the cache within it.                        *)
LEMMA PendingIsFinite == IsFiniteSet(Pending) /\ Cardinality(Pending) \in Nat
BY FS_Subset, FS_CardinalityType, PendingAssumption DEF Pending

(* Removing entries keeps the rest in order and in custody.                     *)
LEMMA RemovePreserves ==
    ASSUME PendingIInv, NEW gone, Remove(gone), now' = now
    PROVE  /\ Pending' = Pending \ gone
           /\ \A n \in Pending' : parked'[n] = parked[n]
           /\ parked' \in [Nonces -> 0 .. MaxSecrets] /\ drawAt' \in [Nonces -> 0 .. MaxTime]
           /\ \A n \in Nonces : drawAt'[n] <= now
           /\ ListIsDrawOrder' /\ WithinCapacity'
<1>1. parked' \in [Nonces -> 0 .. MaxSecrets] /\ drawAt' \in [Nonces -> 0 .. MaxTime]
  BY PendingAssumption DEF PendingIInv, TypeOK, Remove
<1>2. Pending' = Pending \ gone /\ \A n \in Pending' : parked'[n] = parked[n]
  BY DEF Pending, Remove
<1>3. \A n \in Nonces : drawAt'[n] <= now
  BY DEF PendingIInv, ReadingsArePast, TypeOK, Remove
<1>4. ListIsDrawOrder'
  BY <1>2 DEF PendingIInv, ListIsDrawOrder, Remove, Pending
<1>5. WithinCapacity'
  <2>1. Cardinality(Pending') <= Cardinality(Pending) /\ Cardinality(Pending') \in Nat
    BY <1>2, PendingIsFinite, FS_Subset, FS_CardinalityType
  <2> QED BY <2>1, PendingIsFinite, PendingAssumption DEF PendingIInv, WithinCapacity
<1> QED BY <1>1, <1>2, <1>3, <1>4, <1>5

(* What insert_evicting displaces: the nonce's own entry; nothing while there   *)
(* is room; the oldest entry of a full cache.  The cache is then within its     *)
(* capacity, and an evicted entry leaves Capacity younger ones behind.          *)
LEMMA DisplacedCases ==
    ASSUME PendingIInv, NEW n \in Nonces
    PROVE  LET kept == (Pending \ Displaced(n)) \union {n} IN
           /\ Cardinality(kept) <= Capacity
           /\ \A v \in Displaced(n) \ {n} :
                /\ parked[n] = 0
                /\ Cardinality(kept) = Capacity
                /\ \A m \in Pending \ Displaced(n) : parked[v] < parked[m]
<1> DEFINE kept == (Pending \ Displaced(n)) \union {n}
<1> SUFFICES /\ Cardinality(kept) <= Capacity
             /\ \A v \in Displaced(n) \ {n} :
                  /\ parked[n] = 0
                  /\ Cardinality(kept) = Capacity
                  /\ \A m \in Pending \ Displaced(n) : parked[v] < parked[m]
  OBVIOUS
<1> Capacity \in Nat \ {0} /\ Cardinality(Pending) <= Capacity
  BY PendingAssumption DEF PendingIInv, WithinCapacity
<1>1. CASE n \in Pending
  <2>1. parked[n] # 0
    BY <1>1 DEF Pending
  <2>2. Displaced(n) = {n}
    BY <1>1, <2>1 DEF Displaced
  <2>3. kept = Pending
    BY <1>1, <2>2
  <2> QED BY <2>2, <2>3
<1>2. CASE n \notin Pending /\ Cardinality(Pending) < Capacity
  <2>1. Displaced(n) = {}
    BY <1>2, PendingIsFinite DEF Displaced
  <2>2. Cardinality(kept) = Cardinality(Pending) + 1
    BY <1>2, <2>1, PendingIsFinite, FS_AddElement
  <2> QED BY <1>2, <2>1, <2>2, PendingIsFinite
<1>3. CASE n \notin Pending /\ Cardinality(Pending) = Capacity
  <2>1. Pending # {}
    BY <1>3, FS_EmptySet
  <2>2. PICK v \in Pending : IsOldest(older, Pending, v)
    BY <2>1, OldestExists
  <2>3. \A m \in Pending \ {v} : <<v, m>> \in older /\ parked[v] < parked[m]
    BY <2>2 DEF IsOldest, PendingIInv, ListIsDrawOrder
  <2>4. \A w \in Pending : IsOldest(older, Pending, w) => w = v
    <3> SUFFICES ASSUME NEW w \in Pending, IsOldest(older, Pending, w), w # v PROVE FALSE
      OBVIOUS
    <3>1. parked[w] < parked[v] /\ parked[v] < parked[w]
      BY <2>3 DEF IsOldest, PendingIInv, ListIsDrawOrder
    <3> QED BY <3>1 DEF PendingIInv, TypeOK, Pending
  <2>5. parked[n] = 0
    BY <1>3 DEF Pending
  <2>6. Displaced(n) = {v}
    BY <1>3, <2>2, <2>4, <2>5 DEF Displaced
  <2>7. Cardinality(kept) = Capacity
    <3>1. IsFiniteSet(Pending \ {v}) /\ Cardinality(Pending \ {v}) = Cardinality(Pending) - 1
      BY PendingIsFinite, FS_RemoveElement
    <3>2. Cardinality((Pending \ {v}) \union {n}) = Cardinality(Pending \ {v}) + 1
      BY <1>3, <3>1, FS_AddElement
    <3> QED BY <1>3, <2>6, <3>1, <3>2
  <2> HIDE DEF kept
  <2>8. \A w \in Displaced(n) \ {n} : \A m \in Pending \ Displaced(n) : parked[w] < parked[m]
    BY <2>3, <2>6
  <2> QED BY <2>5, <2>7, <2>8
<1> QED BY <1>1, <1>2, <1>3, PendingIsFinite

(* create_ephemeral_key: a fresh draw goes to the young end of the list.        *)
LEMMA InsertPreserves ==
    ASSUME PendingIInv, NEW n \in Nonces, drawn < MaxSecrets,
           InsertEvicting(n, drawn + 1), now' = now
    PROVE  /\ Pending' = (Pending \ Displaced(n)) \union {n}
           /\ \A m \in Pending' \ {n} : parked'[m] = parked[m] /\ drawAt'[m] = drawAt[m]
           /\ parked'[n] = drawn + 1 /\ drawAt'[n] = now
           /\ parked' \in [Nonces -> 0 .. MaxSecrets] /\ drawAt' \in [Nonces -> 0 .. MaxTime]
           /\ \A m \in Nonces : drawAt'[m] <= now
           /\ ListIsDrawOrder' /\ WithinCapacity'
<1> DEFINE gone == Displaced(n)
           left == {p \in older : p[1] \notin gone /\ p[2] \notin gone}
<1> drawn \in Nat /\ MaxSecrets \in Nat /\ drawn + 1 \in 1 .. MaxSecrets /\ now \in 0 .. MaxTime
  BY PendingAssumption DEF PendingIInv, TypeOK
<1>1. /\ parked' = [m \in Nonces |-> IF m = n THEN drawn + 1 ELSE IF m \in gone THEN 0 ELSE parked[m]]
      /\ drawAt' = [m \in Nonces |-> IF m = n THEN now ELSE IF m \in gone THEN 0 ELSE drawAt[m]]
      /\ older' = Promote(left, Pending \ gone, n)
  BY DEF InsertEvicting
<1>2. gone \subseteq Pending
  BY DEF Displaced
<1> HIDE DEF gone
<1>3. Pending' = (Pending \ gone) \union {n}
  BY <1>1 DEF Pending
<1>4. /\ \A m \in Pending' \ {n} : parked'[m] = parked[m] /\ drawAt'[m] = drawAt[m]
      /\ parked'[n] = drawn + 1 /\ drawAt'[n] = now
  BY <1>1, <1>3 DEF Pending
<1>5. parked' \in [Nonces -> 0 .. MaxSecrets] /\ drawAt' \in [Nonces -> 0 .. MaxTime]
  BY <1>1, PendingAssumption DEF PendingIInv, TypeOK
<1>6. \A m \in Nonces : drawAt'[m] <= now
  BY <1>1 DEF PendingIInv, ReadingsArePast, TypeOK
<1>7. ListIsDrawOrder'
  <2>1. \A a, b : <<a, b>> \in older' <=> \/ <<a, b>> \in older /\ {a, b} \intersect gone = {}
                                              /\ a # n /\ b # n
                                          \/ a \in Pending \ gone /\ a # n /\ b = n
    BY <1>1 DEF Promote, Unlink
  <2>2. older' \subseteq Pending' \X Pending'
    BY <1>1, <1>3 DEF Promote, Unlink, PendingIInv, ListIsDrawOrder
  <2>3. ASSUME NEW a \in Pending', NEW b \in Pending'
        PROVE  /\ <<a, b>> \in older' <=> parked'[a] < parked'[b]
               /\ parked'[a] < parked'[b] => drawAt'[a] <= drawAt'[b]
    <3>1. CASE a # n /\ b # n
      BY <1>3, <1>4, <2>1, <3>1 DEF PendingIInv, ListIsDrawOrder
    <3>2. CASE a # n /\ b = n
      <4>1. a \in Pending \ gone /\ parked'[a] = parked[a] /\ drawAt'[a] = drawAt[a]
        BY <1>3, <1>4, <3>2
      <4>2. parked[a] <= drawn /\ drawAt[a] <= now /\ parked[a] \in Nat /\ drawAt[a] \in Nat
        BY <4>1 DEF PendingIInv, Custody, ReadingsArePast, TypeOK, Pending
      <4> QED BY <1>4, <2>1, <3>2, <4>1, <4>2
    <3>3. CASE a = n
      <4>1. parked'[b] <= drawn + 1 /\ parked'[b] \in Nat
        BY <1>3, <1>4, SMTT(30) DEF PendingIInv, Custody, TypeOK, Pending
      <4> QED BY <1>4, <2>1, <3>3, <4>1
    <3> QED BY <3>1, <3>2, <3>3
  <2> QED BY <2>2, <2>3 DEF ListIsDrawOrder
<1>8. WithinCapacity'
  BY <1>3, DisplacedCases DEF WithinCapacity, gone
<1> QED BY <1>3, <1>4, <1>5, <1>6, <1>7, <1>8 DEF gone
-----------------------------------------------------------------------------
(* A draw is parked under one nonce, and nobody else has it yet.                *)
LEMMA CreatePreserves ==
    ASSUME PendingIInv, NEW n \in Nonces, CreateEphemeralKey(n)
    PROVE  PendingIInv'
<1>1. /\ drawn < MaxSecrets /\ drawn' = drawn + 1 /\ InsertEvicting(n, drawn + 1)
      /\ now' = now /\ kx' = kx /\ sessions' = sessions /\ purge' = purge
  BY DEF CreateEphemeralKey
<1>2. TypeOK' /\ ReadingsArePast'
  BY <1>1, InsertPreserves, PendingAssumption, SMTT(30)
     DEF PendingIInv, TypeOK, ReadingsArePast, ListIsDrawOrder
<1>3. Custody'
  <2> drawn \in Nat
    BY DEF PendingIInv, TypeOK
  <2>1. /\ \A m \in Nonces : parked'[m] = parked[m] \/ parked'[m] = 0 \/ (m = n /\ parked'[m] = drawn + 1)
        /\ Pending' \subseteq Pending \union {n}
        /\ \A m \in Pending' \ {n} : parked'[m] = parked[m]
        /\ parked'[n] = drawn + 1
    BY <1>1, InsertPreserves DEF InsertEvicting, Displaced
  <2>2. \A m \in Nonces : parked[m] <= drawn /\ parked[m] \in Nat
    BY DEF PendingIInv, Custody, TypeOK
  <2>3. \A m \in Nonces : parked'[m] <= drawn'
    BY <1>1, <2>1, <2>2
  <2>4. \A a, b \in Pending' : parked'[a] = parked'[b] => a = b
    BY <2>1, <2>2 DEF PendingIInv, Custody, Pending
  <2>5. \A x \in Exchanges : kx[x].secret <= drawn /\ kx[x].secret \in Nat
    BY DEF PendingIInv, Custody, TypeOK
  <2>6. \A x \in Exchanges, m \in Pending' : kx'[x].secret # parked'[m]
    BY <1>1, <2>1, <2>5 DEF PendingIInv, Custody
  <2>7. \A x \in Exchanges : kx'[x].secret <= drawn' /\ (kx'[x].pc = "taken" <=> kx'[x].secret # 0)
    BY <1>1, <2>5 DEF PendingIInv, Custody
  <2>8. ASSUME NEW s \in 1 .. MaxSecrets, sessions[s] = 1
        PROVE  s <= drawn' /\ \A m \in Nonces : parked'[m] # s
    BY <1>1, <2>1, <2>8 DEF PendingIInv, Custody
  <2> QED BY <1>1, <2>3, <2>4, <2>6, <2>7, <2>8 DEF PendingIInv, Custody
<1> QED BY <1>1, <1>2, <1>3, InsertPreserves DEF PendingIInv

(* take_live moves a secret from the cache to one exchange in one step.         *)
LEMMA TakePreserves ==
    ASSUME PendingIInv, NEW x \in Exchanges, NEW n \in Nonces, TakeSecret(x, n)
    PROVE  PendingIInv'
<1> DEFINE live == parked[n] # 0 /\ ~Expired(n, now)
<1>1. /\ kx[x].pc = "idle" /\ Remove({n})
      /\ kx' = [kx EXCEPT ![x] = IF live THEN [pc |-> "taken", secret |-> parked[n]] ELSE @]
      /\ now' = now /\ drawn' = drawn /\ sessions' = sessions /\ purge' = purge
  BY DEF TakeSecret, TakeLive
<1> HIDE DEF live
<1>2. live => n \in Pending
  BY DEF live, Pending
<1>3. TypeOK' /\ ReadingsArePast'
  BY <1>1, RemovePreserves, PendingAssumption
     DEF PendingIInv, TypeOK, ReadingsArePast, ListIsDrawOrder
<1>4. Custody'
  <2>1. \A m \in Nonces : parked'[m] = parked[m] \/ parked'[m] = 0
    BY <1>1 DEF Remove
  <2>2. Pending' = Pending \ {n} /\ \A m \in Pending' : parked'[m] = parked[m]
    BY <1>1, RemovePreserves
  <2>3. kx[x].secret = 0
    BY <1>1 DEF PendingIInv, Custody
  <2>4. \A y \in Exchanges : kx'[y] = IF y = x /\ live THEN [pc |-> "taken", secret |-> parked[n]]
                                     ELSE kx[y]
    BY <1>1 DEF PendingIInv, TypeOK
  <2>5. \A m \in Nonces : parked'[m] <= drawn'
    BY <1>1, <2>1 DEF PendingIInv, TypeOK, Custody
  <2>6. \A a, b \in Pending' : parked'[a] = parked'[b] => a = b
    BY <2>2 DEF PendingIInv, Custody
  <2>7. \A y \in Exchanges : kx'[y].secret <= drawn' /\ (kx'[y].pc = "taken" <=> kx'[y].secret # 0)
    BY <1>1, <1>2, <2>4 DEF PendingIInv, Custody, Pending
  <2>8. \A y, z \in Exchanges : kx'[y].secret # 0 /\ kx'[y].secret = kx'[z].secret => y = z
    BY <1>2, <2>4 DEF PendingIInv, Custody
  <2>9. \A y \in Exchanges, m \in Pending' : kx'[y].secret # parked'[m]
    BY <1>2, <2>2, <2>4 DEF PendingIInv, Custody
  <2>10. ASSUME NEW s \in 1 .. MaxSecrets, sessions[s] = 1
         PROVE  s <= drawn' /\ (\A y \in Exchanges : kx'[y].secret # s) /\ \A m \in Nonces : parked'[m] # s
    BY <1>1, <2>1, <2>4, <2>10 DEF PendingIInv, Custody
  <2> QED BY <1>1, <2>5, <2>6, <2>7, <2>8, <2>9, <2>10 DEF PendingIInv, Custody
<1> QED BY <1>1, <1>3, <1>4, RemovePreserves DEF PendingIInv

(* The rest of key_exchange uses the secret it holds up, for a session or not.  *)
LEMMA FinishPreserves ==
    ASSUME PendingIInv, NEW x \in Exchanges, NEW ok \in BOOLEAN,
           FinishExchange(x, ok)
    PROVE  PendingIInv'
<1>1. /\ kx[x].pc = "taken"
      /\ sessions' = [sessions EXCEPT ![kx[x].secret] = IF ok THEN @ + 1 ELSE @]
      /\ kx' = [kx EXCEPT ![x] = [pc |-> "idle", secret |-> 0]]
      /\ UNCHANGED <<now, drawn, drawAt, parked, older, purge>>
  BY DEF FinishExchange, cache
<1>2. kx[x].secret \in 1 .. MaxSecrets /\ kx[x].secret <= drawn /\ drawn \in Nat
  BY <1>1, PendingAssumption DEF PendingIInv, TypeOK, Custody
<1>3. Pending' = Pending
  BY <1>1 DEF Pending
<1>4. TypeOK'
  BY <1>1, <1>2, <1>3, PendingAssumption DEF PendingIInv, TypeOK
<1>5. Custody'
  <2>1. sessions[kx[x].secret] = 0
    BY <1>2 DEF PendingIInv, TypeOK, Custody
  <2>2. \A s \in 1 .. MaxSecrets : sessions'[s] = IF s = kx[x].secret /\ ok THEN 1 ELSE sessions[s]
    BY <1>1, <1>2, <2>1 DEF PendingIInv, TypeOK
  <2>3. \A y \in Exchanges : kx'[y] = IF y = x THEN [pc |-> "idle", secret |-> 0] ELSE kx[y]
    BY <1>1 DEF PendingIInv, TypeOK
  <2>4. \A n \in Nonces : parked[n] # kx[x].secret
    BY <1>2 DEF PendingIInv, Custody, Pending
  <2>5. /\ \A y \in Exchanges : kx'[y].secret <= drawn /\ (kx'[y].pc = "taken" <=> kx'[y].secret # 0)
        /\ \A y, z \in Exchanges : kx'[y].secret # 0 /\ kx'[y].secret = kx'[z].secret => y = z
        /\ \A y \in Exchanges, n \in Pending : kx'[y].secret # parked[n]
    BY <1>2, <2>3 DEF PendingIInv, Custody, Pending
  <2>6. \A y \in Exchanges : kx'[y].secret # kx[x].secret
    BY <1>2, <2>3 DEF PendingIInv, Custody
  <2>7. ASSUME NEW s \in 1 .. MaxSecrets
        PROVE  /\ sessions'[s] <= 1
               /\ sessions'[s] = 1 => /\ s <= drawn
                                      /\ \A y \in Exchanges : kx'[y].secret # s
                                      /\ \A n \in Nonces : parked[n] # s
    BY <1>2, <2>2, <2>3, <2>4, <2>6 DEF PendingIInv, Custody
  <2> QED BY <1>1, <1>3, <2>5, <2>7 DEF PendingIInv, Custody
<1> QED BY <1>1, <1>3, <1>4, <1>5
        DEF PendingIInv, ReadingsArePast, ListIsDrawOrder, WithinCapacity

(* retire_expired keeps the invariant, whatever its clock reading.              *)
LEMMA RetirePreserves ==
    ASSUME PendingIInv, PurgeRetire
    PROVE  PendingIInv'
<1>1. PICK gone : Remove(gone)
  BY DEF PurgeRetire, RetireExpired
<1>2. purge' = [pc |-> "idle", at |-> 0] /\ UNCHANGED <<now, drawn, kx, sessions>>
  BY DEF PurgeRetire
<1>3. TypeOK' /\ ReadingsArePast'
  BY <1>1, <1>2, RemovePreserves, PendingAssumption
     DEF PendingIInv, TypeOK, ReadingsArePast, ListIsDrawOrder
<1>4. Custody'
  <2>1. \A m \in Nonces : parked'[m] = parked[m] \/ parked'[m] = 0
    BY <1>1 DEF Remove
  <2>2. Pending' \subseteq Pending /\ \A m \in Pending' : parked'[m] = parked[m]
    BY <1>1, <1>2, RemovePreserves
  <2>3. /\ \A m \in Nonces : parked'[m] <= drawn
        /\ \A s \in 1 .. MaxSecrets : sessions[s] = 1 => \A m \in Nonces : parked'[m] # s
    <3>1. \A m \in Nonces : parked'[m] <= drawn
      BY <2>1 DEF PendingIInv, TypeOK, Custody
    <3>2. ASSUME NEW s \in 1 .. MaxSecrets, sessions[s] = 1, NEW m \in Nonces
          PROVE  parked'[m] # s
      BY <2>1, <3>2 DEF PendingIInv, Custody
    <3> QED BY <3>1, <3>2
  <2>4. \A a, b \in Pending' : parked'[a] = parked'[b] => a = b
    BY <2>2 DEF PendingIInv, Custody
  <2>5. \A x \in Exchanges, m \in Pending' : kx[x].secret # parked'[m]
    BY <2>2 DEF PendingIInv, Custody
  <2> QED BY <1>2, <2>3, <2>4, <2>5 DEF PendingIInv, Custody
<1> QED BY <1>1, <1>2, <1>3, <1>4, RemovePreserves DEF PendingIInv
(* A passing clock and the first half of the maintenance task touch no secret.  *)
LEMMA ClockPreserves ==
    ASSUME PendingIInv, Tick \/ PurgeTick \/ UNCHANGED vars
    PROVE  PendingIInv'
<1>1. UNCHANGED <<drawn, drawAt, parked, older, kx, sessions>>
  BY DEF Tick, PurgeTick, vars, cache
<1>2. Pending' = Pending
  BY <1>1 DEF Pending
<1>3. TypeOK' /\ ReadingsArePast'
  <2>1. now' \in 0 .. MaxTime /\ now <= now' /\ now \in Nat
    BY PendingAssumption DEF PendingIInv, TypeOK, Tick, PurgeTick, vars
  <2>2. purge' \in [pc : {"idle", "waiting"}, at : 0 .. MaxTime] /\ purge'.at <= now'
    BY <2>1, PendingAssumption DEF PendingIInv, TypeOK, ReadingsArePast, Tick, PurgeTick, vars
  <2> QED BY <1>1, <1>2, <2>1, <2>2 DEF PendingIInv, TypeOK, ReadingsArePast
<1>4. ListIsDrawOrder' /\ Custody' /\ WithinCapacity'
  BY <1>1, <1>2 DEF PendingIInv, ListIsDrawOrder, Custody, WithinCapacity
<1> QED BY <1>3, <1>4 DEF PendingIInv

(* The server starts with no secret.                                            *)
LEMMA PendingInit == ASSUME Init PROVE PendingIInv
<1>1. Pending = {}
  BY DEF Init, Pending
<1>2. TypeOK /\ ReadingsArePast
  BY <1>1, PendingAssumption DEF Init, TypeOK, ReadingsArePast
<1>3. ListIsDrawOrder /\ Custody
  BY <1>1, PendingAssumption DEF Init, ListIsDrawOrder, Custody
<1>4. WithinCapacity
  BY <1>1, FS_EmptySet, PendingAssumption DEF WithinCapacity
<1> QED BY <1>2, <1>3, <1>4 DEF PendingIInv

(* Every step keeps the inductive invariant.                                    *)
LEMMA PendingStep ==
    ASSUME PendingIInv, [Next]_vars
    PROVE  PendingIInv'
BY ClockPreserves, CreatePreserves, TakePreserves, FinishPreserves, RetirePreserves DEF Next

(* A secret in one custody is counted once.                                     *)
LEMMA CustodyCountsOnce ==
    ASSUME PendingIInv
    PROVE  SecretUsedOnce
<1>1. ASSUME NEW s \in 1 .. drawn
      PROVE  sessions[s] + Cardinality({x \in Exchanges : kx[x].secret = s})
                         + Cardinality({n \in Nonces : parked[n] = s}) <= 1
  <2> DEFINE X == {x \in Exchanges : kx[x].secret = s}
             N == {n \in Nonces : parked[n] = s}
  <2>1. s \in 1 .. MaxSecrets /\ s # 0 /\ sessions[s] \in {0, 1}
    BY PendingAssumption DEF PendingIInv, TypeOK, Custody
  <2>2. \A x, y \in X : x = y
    BY <2>1 DEF PendingIInv, Custody
  <2>3. \A a, b \in N : a = b
    BY <2>1 DEF PendingIInv, Custody, Pending
  <2>4. X = {} \/ N = {}
    BY <2>1 DEF PendingIInv, Custody, Pending
  <2>5. sessions[s] = 1 => X = {} /\ N = {}
    BY <2>1 DEF PendingIInv, Custody
  <2> HIDE DEF X, N
  <2>6. /\ Cardinality(X) \in {0, 1} /\ (X = {} => Cardinality(X) = 0)
        /\ Cardinality(N) \in {0, 1} /\ (N = {} => Cardinality(N) = 0)
    BY <2>2, <2>3, AtMostOne
  <2>7. sessions[s] + Cardinality(X) + Cardinality(N) <= 1
    BY <2>1, <2>4, <2>5, <2>6
  <2> QED BY <2>7 DEF X, N
<1>2. ASSUME NEW s \in (drawn + 1) .. MaxSecrets
      PROVE  sessions[s] = 0
  BY PendingAssumption DEF PendingIInv, TypeOK, Custody
<1> QED BY <1>1, <1>2 DEF SecretUsedOnce

(* The order of the draws is a recency order and the order of the deadlines.    *)
LEMMA DrawOrderIsExpiryOrder ==
    ASSUME PendingIInv
    PROVE  ExpiryOrderMatchesLru
<1>1. \A n \in Pending : parked[n] \in Nat /\ drawAt[n] \in Nat
  BY DEF PendingIInv, TypeOK, Pending
<1> QED BY <1>1 DEF PendingIInv, ListIsDrawOrder, Custody, ExpiryOrderMatchesLru, IsRecencyOrder
-----------------------------------------------------------------------------
(* The handshake never accumulates secrets beyond its capacity, retires them in *)
(* the order in which they expire, and however exchanges of one nonce race or   *)
(* are replayed, at most one of them derives a session from a secret.           *)
THEOREM PendingSafety == Spec => []PendingInv
<1>1. Init => PendingIInv
  BY PendingInit
<1>2. PendingIInv /\ [Next]_vars => PendingIInv'
  BY PendingStep
<1>3. PendingIInv => PendingInv
  BY CustodyCountsOnce, DrawOrderIsExpiryOrder DEF PendingIInv, PendingInv
<1> QED BY <1>1, <1>2, <1>3, PTL DEF Spec

(* A client that got its attestation can finish the handshake within the TTL:   *)
(* neither the purge with its stale clock nor an eviction takes its secret while *)
(* it is live and fewer than Capacity younger ones are parked.                  *)
THEOREM LiveSecretSafety == Spec => LiveSecretDisplacedOnlyByNewer
<1> DEFINE Kept(n) ==
             parked[n] # 0 /\ parked'[n] # parked[n] /\ ~Expired(n, now) =>
                 \/ parked'[n] > parked[n]
                 \/ \E x \in Exchanges : kx'[x] # kx[x] /\ kx'[x].secret = parked[n]
                 \/ Cardinality({m \in Nonces : parked'[m] > parked[n]}) = Capacity
<1>1. ASSUME PendingIInv, [Next]_vars, NEW n \in Nonces
      PROVE  Kept(n)
  <2> SUFFICES ASSUME parked[n] # 0, parked'[n] # parked[n], ~Expired(n, now)
               PROVE  Kept(n)
    OBVIOUS
  <2> n \in Pending /\ parked[n] \in Nat /\ parked[n] <= drawn /\ drawn \in Nat
    BY <1>1 DEF PendingIInv, TypeOK, Custody, Pending
  <2>1. ASSUME NEW k \in Nonces, CreateEphemeralKey(k)
        PROVE  Kept(n)
    <3>1. InsertEvicting(k, drawn + 1) /\ drawn < MaxSecrets /\ now' = now
      BY <2>1 DEF CreateEphemeralKey
    <3>2. /\ Pending' = (Pending \ Displaced(k)) \union {k}
          /\ \A m \in Pending' \ {k} : parked'[m] = parked[m]
          /\ parked'[k] = drawn + 1
      BY <1>1, <3>1, InsertPreserves
    <3>3. CASE n = k
      BY <3>2, <3>3
    <3>4. CASE n # k
      <4>1. n \in Displaced(k) \ {k}
        BY <3>2, <3>4
      <4>2. /\ Cardinality((Pending \ Displaced(k)) \union {k}) = Capacity
            /\ \A m \in Pending \ Displaced(k) : parked[n] < parked[m]
        BY <1>1, <4>1, DisplacedCases
      <4>3. {m \in Nonces : parked'[m] > parked[n]} = Pending'
        <5>1. \A m \in Pending' : m \in Nonces /\ parked'[m] > parked[n]
          BY <3>2, <4>2 DEF Pending
        <5>2. \A m \in Nonces : parked'[m] > parked[n] => m \in Pending'
          BY <1>1 DEF Pending
        <5> QED BY <5>1, <5>2
      <4> QED BY <3>2, <4>2, <4>3
    <3> QED BY <3>3, <3>4
  <2>2. ASSUME NEW x \in Exchanges, NEW k \in Nonces, TakeSecret(x, k)
        PROVE  Kept(n)
    <3>1. n = k
      BY <2>2 DEF TakeSecret, TakeLive, Remove
    <3>2. kx[x].pc = "idle" /\ kx' = [kx EXCEPT ![x] = [pc |-> "taken", secret |-> parked[n]]]
      BY <2>2, <3>1 DEF TakeSecret, TakeLive
    <3>3. kx'[x] = [pc |-> "taken", secret |-> parked[n]]
      BY <1>1, <3>2 DEF PendingIInv, TypeOK
    <3> QED BY <3>2, <3>3
  <2>3. CASE PurgeRetire
    <3>1. Expired(n, purge.at)
      BY <2>3 DEF PurgeRetire, RetireExpired, Remove
    <3>2. Expired(n, now)
      BY <1>1, <3>1, PendingAssumption DEF PendingIInv, TypeOK, ReadingsArePast, Expired
    <3> QED BY <3>2
  <2>4. CASE UNCHANGED parked
    BY <2>4
  <2> QED BY <1>1, <2>1, <2>2, <2>3, <2>4 DEF Next, vars, cache, Tick, PurgeTick, FinishExchange
<1>2. PendingIInv /\ [Next]_vars => [\A n \in Nonces : Kept(n)]_vars
  BY <1>1
<1>3. Spec => []PendingIInv
  <2>1. Init => PendingIInv
    BY PendingInit
  <2>2. PendingIInv /\ [Next]_vars => PendingIInv'
    BY PendingStep
  <2> QED BY <2>1, <2>2, PTL DEF Spec
<1> QED BY <1>2, <1>3, PTL DEF Spec, LiveSecretDisplacedOnlyByNewer
-----------------------------------------------------------------------------
(*****************************************************************************)
(* The start of the program, for any number of retries, faults and expiries. *)
(*                                                                           *)
(* What the process holds is what a later process will find: the key from    *)
(* the moment the row is written or read, the JWT secret likewise, and both  *)
(* rows are written only where there was none.                               *)
(*****************************************************************************)

BeforeKey == {"down", "creds", "url", "key", "persistKey"}
BeforeJwt == BeforeKey \union {"required", "jwt", "persistJwt"}
NewJwt == [id |-> 0, under |-> 0]

\* The key in memory and the row of it.
KeyInv ==
    /\ main \notin BeforeKey => key = keyRow /\ keyRow # 0
    /\ main = "persistKey" => keyRow = 0 /\ key # 0
    /\ keyRow = 0 => jwtRow = NewJwt
    /\ written \subseteq {keyRow}

\* The JWT secret in memory and the row of it.
JwtInv ==
    /\ main = "persistJwt" => jwtRow = NewJwt
    /\ main \notin BeforeJwt => jwtRow = [id |-> jwt, under |-> keyRow]

StartupIInv == Program!TypeOK /\ fresh \in Nat \ {0} /\ KeyInv /\ JwtInv

(* The bounds are numbers, and one attempt at least is made.                    *)
LEMMA StartupBounds == MaxRetries \in Nat \ {0} /\ MaxFaults \in Nat /\ MaxExpiries \in Nat
BY PartsAssumption DEF PartsAssumption, Program!StartupAssumption

(* A new database satisfies the invariant.                                      *)
LEMMA StartupInit == ASSUME Program!Init PROVE StartupIInv
BY StartupBounds
DEF Program!Init, Program!NoJwt, Program!Names, Program!Categories, Program!Needs, StartupIInv, Program!TypeOK, KeyInv, JwtInv,
    BeforeKey, BeforeJwt, NewJwt

(* The end of a process, whatever the reason, leaves the rows as they are.      *)
LEMMA DownPreserves ==
    ASSUME StartupIInv, Program!Down, Program!Fault \/ Program!NoFault
    PROVE  StartupIInv'
<1>1. Program!TypeOK'
  BY StartupBounds DEF StartupIInv, Program!TypeOK, Program!Down, Program!rows, Program!Fault, Program!NoFault
<1>2. fresh' \in Nat \ {0} /\ KeyInv' /\ JwtInv'
  BY DEF StartupIInv, KeyInv, JwtInv, Program!Down, Program!rows, BeforeKey, BeforeJwt, NewJwt
<1> QED BY <1>1, <1>2 DEF StartupIInv

(* The credentials change no secret.                                            *)
LEMMA CredentialStepPreserves ==
    ASSUME StartupIInv,
           Program!FetchCredentials \/ Program!Expire \/ Program!Refresh \/ Program!RefreshFails
    PROVE  StartupIInv'
<1> USE DEF Program!FetchCredentials, Program!Expire, Program!Refresh, Program!RefreshFails,
            Program!RefreshRuns, Program!Fault, Program!NoFault, Program!rows, Program!memory
<1>1. Program!TypeOK'
  <2>1. CASE Program!FetchCredentials
    BY <2>1 DEF StartupIInv, Program!TypeOK
  <2>2. CASE Program!Expire
    BY <2>2, StartupBounds DEF StartupIInv, Program!TypeOK
  <2>3. CASE Program!Refresh
    BY <2>3 DEF StartupIInv, Program!TypeOK
  <2>4. CASE Program!RefreshFails
    BY <2>4, StartupBounds DEF StartupIInv, Program!TypeOK
  <2> QED BY <2>1, <2>2, <2>3, <2>4
<1>2. fresh' \in Nat \ {0} /\ KeyInv' /\ JwtInv'
  BY DEF StartupIInv, KeyInv, JwtInv, BeforeKey, BeforeJwt, NewJwt
<1> QED BY <1>1, <1>2 DEF StartupIInv

(* Neither does the operator, nor an administrator of the project.              *)
LEMMA OperatorPreserves == ASSUME StartupIInv, Program!Operator PROVE StartupIInv'
<1> USE DEF Program!Operator, Program!Start, Program!Provide, Program!RenameProject, Program!DeleteProject,
            Program!rows, Program!memory
<1>1. Program!TypeOK'
  BY DEF StartupIInv, Program!TypeOK
<1>2. fresh' \in Nat \ {0} /\ KeyInv' /\ JwtInv'
  BY DEF StartupIInv, KeyInv, JwtInv, BeforeKey, BeforeJwt, NewJwt
<1> QED BY <1>1, <1>2 DEF StartupIInv

(* What a start cannot do without is there, or the process ends.                *)
LEMMA RequiredPreserves == ASSUME StartupIInv, Program!GetUrl \/ Program!RequireKeys PROVE StartupIInv'
<1>1. Program!Fault \/ Program!NoFault
  BY DEF Program!GetUrl, Program!RequireKeys, Program!KmsAnswers
<1>2. CASE Program!Down
  BY <1>1, <1>2, DownPreserves
<1>3. CASE ~Program!Down
  <2>0. faults' \in 0 .. MaxFaults
    BY <1>1, StartupBounds DEF StartupIInv, Program!TypeOK, Program!Fault, Program!NoFault
  <2>1. Program!TypeOK'
    BY <1>3, <2>0
    DEF StartupIInv, Program!TypeOK, Program!GetUrl, Program!RequireKeys, Program!rows, Program!memory
  <2>2. fresh' \in Nat \ {0} /\ KeyInv' /\ JwtInv'
    BY <1>3
    DEF StartupIInv, KeyInv, JwtInv, BeforeKey, BeforeJwt, NewJwt, Program!GetUrl, Program!RequireKeys,
        Program!rows, Program!memory
  <2> QED BY <2>1, <2>2 DEF StartupIInv
<1> QED BY <1>2, <1>3

(* A failed attempt is followed by another, or ends the process.                *)
LEMMA FetchFailsPreserves == ASSUME StartupIInv, Program!FetchFails PROVE StartupIInv'
<1>1. CASE Program!Down
  BY <1>1, DownPreserves DEF Program!FetchFails
<1>2. CASE /\ attempts + 1 < MaxRetries /\ attempts' = attempts + 1
           /\ UNCHANGED <<Program!rows, needed, given, main, key, jwt, creds, fresh, expiries>>
  <2>1. Program!TypeOK'
    BY <1>2, StartupBounds DEF StartupIInv, Program!TypeOK, Program!FetchFails, Program!Fault, Program!rows
  <2>2. fresh' \in Nat \ {0} /\ KeyInv' /\ JwtInv'
    BY <1>2 DEF StartupIInv, KeyInv, JwtInv, BeforeKey, BeforeJwt, NewJwt, Program!rows
  <2> QED BY <2>1, <2>2 DEF StartupIInv
<1> QED BY <1>1, <1>2, StartupBounds DEF Program!FetchFails, StartupIInv, Program!TypeOK

(* What was drawn before a secret is drawn is still in range afterwards.        *)
LEMMA DrawingWidens ==
    ASSUME StartupIInv
    PROVE  /\ 0 .. fresh \subseteq 0 .. fresh + 1 /\ 1 .. fresh \subseteq 1 .. fresh + 1
           /\ fresh \in 0 .. fresh + 1
           /\ jwtRow \in [id : 0 .. fresh + 1, under : 0 .. fresh + 1]
BY DEF StartupIInv, Program!TypeOK

(* The key is read where there is a row, made where there is none, and stored   *)
(* in the row that was missing.                                                 *)
LEMMA KeyStepPreserves == ASSUME StartupIInv, Program!GetKey \/ Program!PersistKey PROVE StartupIInv'
<1>1. CASE Program!GetKey
  <2>1. PICK ok \in BOOLEAN : main = "key" /\ Program!KmsAnswers(ok) /\ Program!ResolveKey(ok)
    BY <1>1 DEF Program!GetKey
  <2>2. Program!Fault \/ Program!NoFault
    BY <2>1 DEF Program!KmsAnswers
  <2>3. CASE Program!Down
    BY <2>2, <2>3, DownPreserves
  <2>4. CASE ~Program!Down
    <3>0. faults' \in 0 .. MaxFaults
      BY <2>2, StartupBounds DEF StartupIInv, Program!TypeOK, Program!Fault, Program!NoFault
    <3>1. Program!TypeOK'
      BY <2>1, <2>4, <3>0, DrawingWidens
      DEF StartupIInv, Program!TypeOK, Program!ResolveKey, Program!Generate, Program!rows
    <3>2. fresh' \in Nat \ {0} /\ KeyInv' /\ JwtInv'
      BY <2>1, <2>4
      DEF StartupIInv, KeyInv, JwtInv, BeforeKey, BeforeJwt, NewJwt, Program!ResolveKey, Program!Generate, Program!rows
    <3> QED BY <3>1, <3>2 DEF StartupIInv
  <2> QED BY <2>3, <2>4
<1>2. CASE Program!PersistKey
  <2> USE <1>2 DEF Program!PersistKey, Program!KeyStored, Program!memory
  <2>1. Program!TypeOK'
    BY DEF StartupIInv, Program!TypeOK
  <2>2. written = {}
    BY DEF StartupIInv, Program!TypeOK, KeyInv
  <2>3. fresh' \in Nat \ {0} /\ KeyInv' /\ JwtInv'
    BY <2>2 DEF StartupIInv, KeyInv, JwtInv, BeforeKey, BeforeJwt, NewJwt
  <2> QED BY <2>1, <2>3 DEF StartupIInv
<1> QED BY <1>1, <1>2

(* The JWT secret likewise.                                                     *)
LEMMA JwtStepPreserves ==
    ASSUME StartupIInv, Program!ReadJwt \/ Program!GenerateJwt \/ Program!PersistJwt
    PROVE  StartupIInv'
<1>1. CASE Program!ReadJwt
  <2>1. CASE Program!Down
    BY <1>1, <2>1, DownPreserves DEF Program!ReadJwt
  <2>2. CASE ~Program!Down
    <3>1. Program!TypeOK'
      BY <1>1, <2>2 DEF StartupIInv, Program!TypeOK, Program!ReadJwt, Program!rows, Program!NoFault
    <3>2. fresh' \in Nat \ {0} /\ KeyInv' /\ JwtInv'
      BY <1>1, <2>2
      DEF StartupIInv, Program!TypeOK, KeyInv, JwtInv, BeforeKey, BeforeJwt, NewJwt, Program!ReadJwt, Program!rows,
          Program!NoJwt
    <3> QED BY <3>1, <3>2 DEF StartupIInv
  <2> QED BY <2>1, <2>2
<1>2. CASE Program!GenerateJwt
  <2>1. PICK ok \in BOOLEAN : Program!KmsAnswers(ok) /\ (~ok => Program!Down) /\
            (ok => /\ jwt' = fresh /\ fresh' = fresh + 1 /\ main' = "persistJwt"
                   /\ UNCHANGED <<Program!rows, needed, given, key, creds, attempts, expiries>>)
    BY <1>2 DEF Program!GenerateJwt
  <2>2. Program!Fault \/ Program!NoFault
    BY <2>1 DEF Program!KmsAnswers
  <2>3. CASE ~ok
    BY <2>1, <2>2, <2>3, DownPreserves
  <2>4. CASE ok
    <3>0. faults' \in 0 .. MaxFaults
      BY <2>2, StartupBounds DEF StartupIInv, Program!TypeOK, Program!Fault, Program!NoFault
    <3>1. Program!TypeOK'
      BY <2>1, <2>4, <3>0, DrawingWidens DEF StartupIInv, Program!TypeOK, Program!rows
    <3>2. fresh' \in Nat \ {0} /\ KeyInv' /\ JwtInv'
      BY <1>2, <2>1, <2>4
      DEF StartupIInv, KeyInv, JwtInv, BeforeKey, BeforeJwt, NewJwt, Program!GenerateJwt, Program!rows, Program!NoJwt
    <3> QED BY <3>1, <3>2 DEF StartupIInv
  <2> QED BY <2>3, <2>4
<1>3. CASE Program!PersistJwt
  <2> USE <1>3 DEF Program!PersistJwt, Program!memory
  <2>1. Program!TypeOK'
    BY DEF StartupIInv, Program!TypeOK
  <2>2. fresh' \in Nat \ {0} /\ KeyInv' /\ JwtInv'
    BY DEF StartupIInv, KeyInv, JwtInv, BeforeKey, BeforeJwt, NewJwt
  <2> QED BY <2>1, <2>2 DEF StartupIInv
<1> QED BY <1>1, <1>2, <1>3

(* Third-party secrets, the migration and serving leave both rows alone.        *)
LEMMA SettledPreserves ==
    ASSUME StartupIInv, Program!Retrieve \/ Program!Migrate \/ Program!Serve
    PROVE  StartupIInv'
<1>1. CASE Program!Down /\ (Program!Fault \/ Program!NoFault)
  BY <1>1, DownPreserves
<1>2. CASE ~Program!Down /\ Program!Retrieve
  <2>1. Program!TypeOK'
    BY <1>2, StartupBounds
    DEF StartupIInv, Program!TypeOK, Program!Retrieve, Program!KmsAnswers, Program!rows, Program!memory,
        Program!Fault, Program!NoFault
  <2>2. fresh' \in Nat \ {0} /\ KeyInv' /\ JwtInv'
    BY <1>2
    DEF StartupIInv, KeyInv, JwtInv, BeforeKey, BeforeJwt, NewJwt, Program!Retrieve, Program!rows, Program!memory
  <2> QED BY <2>1, <2>2 DEF StartupIInv
<1>3. CASE ~Program!Down /\ Program!Migrate
  <2>1. Program!TypeOK'
    BY <1>3
    DEF StartupIInv, Program!TypeOK, Program!Migrate, Program!CheckMigration, Program!WriteSettings,
        Program!WriteSecret, Program!Goto, Program!rows, Program!memory, Program!Names, Program!Categories
  <2>2. fresh' \in Nat \ {0} /\ KeyInv' /\ JwtInv'
    BY <1>3
    DEF StartupIInv, KeyInv, JwtInv, BeforeKey, BeforeJwt, NewJwt, Program!Migrate, Program!CheckMigration,
        Program!WriteSettings, Program!WriteSecret, Program!Goto, Program!rows, Program!memory
  <2> QED BY <2>1, <2>2 DEF StartupIInv
<1>4. CASE Program!Serve
  <2> USE <1>4 DEF Program!Serve, Program!memory
  <2>1. Program!TypeOK'
    BY DEF StartupIInv, Program!TypeOK, KeyInv, BeforeKey
  <2>2. fresh' \in Nat \ {0} /\ KeyInv' /\ JwtInv'
    BY DEF StartupIInv, KeyInv, JwtInv, BeforeKey, BeforeJwt, NewJwt
  <2> QED BY <2>1, <2>2 DEF StartupIInv
<1>5. ASSUME Program!Retrieve PROVE Program!Fault \/ Program!NoFault
  BY <1>5 DEF Program!Retrieve, Program!KmsAnswers
<1>6. ASSUME Program!Migrate PROVE Program!NoFault
  BY <1>6
  DEF Program!Migrate, Program!CheckMigration, Program!WriteSettings, Program!WriteSecret, Program!Goto,
      Program!NoFault
<1> QED BY <1>1, <1>2, <1>3, <1>4, <1>5, <1>6

(* The invariant is inductive.                                                  *)
LEMMA StartupStep == ASSUME StartupIInv, [Program!Next]_(Program!vars) PROVE StartupIInv'
<1>1. CASE Program!Next
  BY <1>1, DownPreserves, CredentialStepPreserves, OperatorPreserves, RequiredPreserves, FetchFailsPreserves,
     KeyStepPreserves, JwtStepPreserves, SettledPreserves
  DEF Program!Next, Program!Main, Program!Crash
<1>2. CASE UNCHANGED Program!vars
  BY <1>2
  DEF Program!vars, Program!rows, Program!memory, StartupIInv, Program!TypeOK, KeyInv, JwtInv
<1> QED BY <1>1, <1>2

(* Wherever the process stops and whatever fails, user data is encrypted only   *)
(* under the enclave key that is in the database, and a process that serves     *)
(* signs with the JWT secret that is there: a later process finds both.         *)
THEOREM RestartSafety == Program!Spec => []DataSurvivesRestart
<1>1. StartupIInv => DataSurvivesRestart
  BY DEF StartupIInv, KeyInv, JwtInv, BeforeJwt, BeforeKey, DataSurvivesRestart, Program!DataSurvivesRestart
<1> QED BY StartupInit, StartupStep, <1>1, PTL DEF Program!Spec

(* The enclave key and the JWT secret in the database are never replaced.       *)
THEOREM SecretRowSafety == Program!Spec => Program!StoredSecretsAreForever
<1> DEFINE Kept == /\ keyRow # 0 => keyRow' = keyRow
                   /\ jwtRow # Program!NoJwt => jwtRow' = jwtRow
<1>1. ASSUME StartupIInv, [Program!Next]_(Program!vars) PROVE [Kept]_(Program!vars)
  <2>1. CASE Program!PersistKey \/ Program!PersistJwt
    BY <1>1, <2>1
    DEF StartupIInv, KeyInv, JwtInv, NewJwt, Program!NoJwt, Program!PersistKey, Program!PersistJwt, Program!KeyStored
  <2>2. CASE ~(Program!PersistKey \/ Program!PersistJwt)
    <3>1. CASE Program!Next
      <4>1. keyRow' = keyRow /\ jwtRow' = jwtRow
        BY <2>2, <3>1
        DEF Program!Next, Program!Main, Program!Operator, Program!Crash, Program!Start, Program!Provide,
            Program!RenameProject, Program!DeleteProject, Program!FetchCredentials, Program!FetchFails,
            Program!Expire, Program!Refresh, Program!RefreshFails, Program!GetUrl, Program!GetKey, Program!ResolveKey,
            Program!RequireKeys, Program!Generate, Program!ReadJwt, Program!GenerateJwt, Program!Retrieve, Program!Migrate,
            Program!CheckMigration, Program!WriteSettings, Program!WriteSecret, Program!Goto, Program!Serve,
            Program!Down, Program!rows
      <4> QED BY <4>1
    <3> QED BY <1>1, <3>1
  <2> QED BY <2>1, <2>2
<1> QED BY StartupInit, StartupStep, <1>1, PTL DEF Program!Spec, Program!StoredSecretsAreForever
=============================================================================

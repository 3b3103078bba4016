-------------------------- MODULE Enrollment_proofs --------------------------
(* Proofs about Enrollment, for every set of nodes and handshakes and every  *)
(* capacity.                                                                 *)
EXTENDS Enrollment, FiniteSetTheorems, TLAPS

-----------------------------------------------------------------------------
(* The inductive invariant *)

\* What a registry m may hold, in memory or in the file, when the handshakes d
\* have been drawn: a pending handshake has the status of its state in the
\* history, and a node is authorized with a key drawn for it.
RegistryOK(m, d) ==
    /\ m \in Registry
    /\ Capacity(m)
    /\ \A h \in Handshake :
          /\ m.pending[h] # "none" => h \in d
          /\ h \notin d => m.history[h] = 0
          /\ m.pending[h] = "pending" => m.history[h] = 100
          /\ m.pending[h] = "approved" => m.history[h] = 200
          /\ m.pending[h] = "rejected" => m.history[h] = 403
    /\ \A n \in Node :
          m.authorized[n] # None => m.authorized[n] \in d /\ NodeOf[m.authorized[n]] = n

\* What it may hold when the keys w have been withdrawn and the statuses s were
\* shown: a handshake that can still be approved is neither withdrawn nor
\* approved already, an approved one has given its node the key it has unless
\* that was withdrawn, and every status continues what was shown.
KeysOK(m, w, s) ==
    /\ \A n \in Node : m.authorized[n] \notin w
    /\ \A h \in Handshake :
          /\ m.pending[h] = "pending" => h \notin w /\ m.authorized[NodeOf[h]] # h
          /\ m.pending[h] = "approved" => m.authorized[NodeOf[h]] = h \/ h \in w
          /\ ForwardStatus(s[h], m.history[h])

\* A node asks about its own handshake, and has no credential while it does.
NodeOK(n) ==
    /\ profile[n].enroll # None => NodeOf[profile[n].enroll] = n
    /\ profile[n].cred = None => profile[n] = Blank \/ profile[n].enroll # None
    /\ worker[n].pc \in {"asking", "approved", "rejected"} =>
          /\ worker[n].copy.enroll # None
          /\ NodeOf[worker[n].copy.enroll] = n
          /\ worker[n].copy.cred = None

\* The ghost follows the handshakes it is to follow and no other.
ShownFollowed == \A h \in Handshake \ Followed : shown[h] = 0

\* Always, whatever fails: the registry of the memory and that of the file.
RegistryInv ==
    /\ EnrollmentTypeOK
    /\ RegistryOK(mem, drawn)
    /\ RegistryOK(disk, drawn)
    /\ \A n \in Node : NodeOK(n)
    /\ ShownFollowed

\* No write that a restart could uncover fails.
Durable == ~PersistMayFail \/ ~MayRestart

\* What the memory knows of keys, and the file if the coordinator may restart.
KeysInv ==
    /\ KeysOK(mem, withdrawn, shown)
    /\ MayRestart => KeysOK(disk, withdrawn, shown)

\* When no write fails: the file has the credentials of the memory, and what a
\* node was given or is about to keep is there.
BackedInv ==
    /\ disk.authorized = mem.authorized
    /\ \A n \in Node :
          worker[n].pc = "approved" =>
              disk.authorized[n] = worker[n].copy.enroll \/ worker[n].copy.enroll \in withdrawn
    /\ CredentialBacked

-----------------------------------------------------------------------------
(* The operators of the registry *)

\* A status that moves on from one that moved on moves on.
LEMMA ForwardTransitive ==
    ASSUME NEW p, NEW q, NEW r, ForwardStatus(p, q), ForwardStatus(q, r)
    PROVE  ForwardStatus(p, r)
BY DEF ForwardStatus

\* Replacing the states and the statuses leaves the credentials.
LEMMA UpdatedRecord ==
    ASSUME NEW m \in Registry, NEW states, NEW statuses
    PROVE  [m EXCEPT !.pending = states, !.history = statuses]
               = [pending |-> states, authorized |-> m.authorized, history |-> statuses]
<1>1. PICK r : r = [m EXCEPT !.pending = states, !.history = statuses]
  OBVIOUS
<1>2. r = [pending |-> states, authorized |-> m.authorized, history |-> statuses]
  BY <1>1 DEF Registry
<1>3. QED
  BY <1>1, <1>2

\* Cleanup drops some handshakes and nothing else; one that is dropped and was
\* requested or approved is expired.
LEMMA CleanedFacts ==
    ASSUME NEW m \in Registry
    PROVE  /\ Cleaned(m) \in Registry
           /\ Cleaned(m).authorized = m.authorized
           /\ \A h \in Handshake :
                 \/ /\ Cleaned(m).pending[h] = m.pending[h]
                    /\ Cleaned(m).history[h] = m.history[h]
                 \/ /\ Cleaned(m).pending[h] = "none"
                    /\ m.pending[h] # "none"
                    /\ Cleaned(m).history[h] =
                           IF m.history[h] \in {100, 200} THEN 410 ELSE m.history[h]
<1>1. PICK dropped : dropped = [h \in Handshake |-> IF h \in Overdue(m) THEN "none" ELSE m.pending[h]]
  OBVIOUS
<1>2. PICK status : status = [h \in Handshake |->
          IF h \in Overdue(m) /\ m.history[h] \in {100, 200} THEN 410 ELSE m.history[h]]
  OBVIOUS
<1>3. Cleaned(m) = [m EXCEPT !.pending = dropped, !.history = status]
  BY <1>1, <1>2 DEF Cleaned
<1>4. Cleaned(m) = [pending |-> dropped, authorized |-> m.authorized, history |-> status]
  BY <1>3, UpdatedRecord
<1>5. dropped \in [Handshake -> {"none", "pending", "approved", "rejected"}]
  BY <1>1 DEF Registry
<1>6. status \in [Handshake -> {0, 100, 200, 201, 403, 410}]
  BY <1>2 DEF Registry
<1>7. /\ Cleaned(m) \in Registry
      /\ Cleaned(m).authorized = m.authorized
      /\ Cleaned(m).pending = dropped
      /\ Cleaned(m).history = status
  BY <1>4, <1>5, <1>6 DEF Registry
<1>8. QED
  BY <1>1, <1>2, <1>7 DEF Overdue, Pending

\* Dropping the handshakes hs with a final status.
LEMMA ClosedFacts ==
    ASSUME NEW m \in Registry, NEW hs, NEW status \in {201, 403}
    PROVE  /\ Closed(m, hs, status) \in Registry
           /\ Closed(m, hs, status).authorized = m.authorized
           /\ \A h \in Handshake :
                 /\ Closed(m, hs, status).pending[h] = IF h \in hs THEN "none" ELSE m.pending[h]
                 /\ Closed(m, hs, status).history[h] = IF h \in hs THEN status ELSE m.history[h]
<1>1. PICK dropped : dropped = [h \in Handshake |-> IF h \in hs THEN "none" ELSE m.pending[h]]
  OBVIOUS
<1>2. PICK marked : marked = [h \in Handshake |-> IF h \in hs THEN status ELSE m.history[h]]
  OBVIOUS
<1>3. Closed(m, hs, status) = [m EXCEPT !.pending = dropped, !.history = marked]
  BY <1>1, <1>2 DEF Closed
<1>4. Closed(m, hs, status) = [pending |-> dropped, authorized |-> m.authorized, history |-> marked]
  <2>1. PICK r : r = Closed(m, hs, status)
    OBVIOUS
  <2>2. r = [m EXCEPT !.pending = dropped, !.history = marked]
    BY <1>3, <2>1
  <2>3. r = [pending |-> dropped, authorized |-> m.authorized, history |-> marked]
    BY <2>2 DEF Registry
  <2>4. QED
    BY <2>1, <2>3
<1>5. dropped \in [Handshake -> {"none", "pending", "approved", "rejected"}]
  BY <1>1 DEF Registry
<1>6. marked \in [Handshake -> {0, 100, 200, 201, 403, 410}]
  BY <1>2 DEF Registry
<1>7. /\ Closed(m, hs, status) \in Registry
      /\ Closed(m, hs, status).authorized = m.authorized
      /\ Closed(m, hs, status).pending = dropped
      /\ Closed(m, hs, status).history = marked
  BY <1>4, <1>5, <1>6 DEF Registry
<1>8. QED
  BY <1>1, <1>2, <1>7 DEF Registry

\* Giving one handshake a state and a status.
LEMMA MarkedFacts ==
    ASSUME NEW m \in Registry, NEW h \in Handshake,
           NEW state \in {"pending", "approved", "rejected"}, NEW status \in {100, 200, 403}
    PROVE  /\ Marked(m, h, state, status) \in Registry
           /\ Marked(m, h, state, status).authorized = m.authorized
           /\ \A g \in Handshake :
                 /\ Marked(m, h, state, status).pending[g] = IF g = h THEN state ELSE m.pending[g]
                 /\ Marked(m, h, state, status).history[g] = IF g = h THEN status ELSE m.history[g]
<1>1. PICK states : states = [m.pending EXCEPT ![h] = state]
  OBVIOUS
<1>2. PICK statuses : statuses = [m.history EXCEPT ![h] = status]
  OBVIOUS
<1>3. Marked(m, h, state, status) = [m EXCEPT !.pending = states, !.history = statuses]
  BY <1>1, <1>2 DEF Marked
<1>4. Marked(m, h, state, status) = [pending |-> states, authorized |-> m.authorized, history |-> statuses]
  <2>1. PICK r : r = Marked(m, h, state, status)
    OBVIOUS
  <2>2. r = [m EXCEPT !.pending = states, !.history = statuses]
    BY <1>3, <2>1
  <2>3. r = [pending |-> states, authorized |-> m.authorized, history |-> statuses]
    BY <2>2 DEF Registry
  <2>4. QED
    BY <2>1, <2>3
<1>5. states \in [Handshake -> {"none", "pending", "approved", "rejected"}]
  BY <1>1 DEF Registry
<1>6. statuses \in [Handshake -> {0, 100, 200, 201, 403, 410}]
  BY <1>2 DEF Registry
<1>7. /\ Marked(m, h, state, status) \in Registry
      /\ Marked(m, h, state, status).authorized = m.authorized
      /\ Marked(m, h, state, status).pending = states
      /\ Marked(m, h, state, status).history = statuses
  BY <1>4, <1>5, <1>6 DEF Registry
<1>8. QED
  BY <1>1, <1>2, <1>7 DEF Registry

\* A registry with no more pending handshakes than another keeps the capacities.
LEMMA CapacityShrinks ==
    ASSUME NEW m, NEW r, Capacity(m), Pending(r) \subseteq Pending(m)
    PROVE  Capacity(r)
<1>1. IsFiniteSet(Pending(m))
  BY EnrollmentAssumption, FS_Subset DEF Pending
<1>2. Cardinality(Pending(r)) <= Cardinality(Pending(m))
  BY <1>1, FS_Subset
<1>3. ASSUME NEW h \in Handshake
      PROVE  Cardinality({g \in Pending(r) : SourceOf[g] = SourceOf[h]}) <= MaxPerSource
  <2> DEFINE R == {g \in Pending(r) : SourceOf[g] = SourceOf[h]}
             M == {g \in Pending(m) : SourceOf[g] = SourceOf[h]}
  <2>1. IsFiniteSet(M)
    BY <1>1, FS_Subset
  <2>2. R \subseteq M
    OBVIOUS
  <2>3. /\ Cardinality(M) <= MaxPerSource
        /\ Cardinality(R) <= Cardinality(M) /\ Cardinality(R) \in Nat /\ Cardinality(M) \in Nat
    BY <2>1, <2>2, FS_Subset, FS_CardinalityType DEF Capacity
  <2>4. QED
    BY <2>3, EnrollmentAssumption
<1>4. Cardinality(Pending(r)) \in Nat /\ Cardinality(Pending(m)) \in Nat
  BY <1>1, FS_Subset, FS_CardinalityType
<1>5. Cardinality(Pending(r)) <= MaxPending
  BY <1>2, <1>4, EnrollmentAssumption DEF Capacity
<1>6. QED
  BY <1>3, <1>5 DEF Capacity

\* A registry with room for a handshake keeps the capacities with it.
LEMMA CapacityGrows ==
    ASSUME NEW m, NEW r, NEW h \in Handshake, Capacity(m), HasRoom(m, h),
           Pending(r) \subseteq Pending(m) \cup {h}
    PROVE  Capacity(r)
<1>1. IsFiniteSet(Pending(m))
  BY EnrollmentAssumption, FS_Subset DEF Pending
<1>2. ASSUME NEW S, IsFiniteSet(S), NEW T, T \subseteq S \cup {h}, NEW B \in Nat, Cardinality(S) < B
      PROVE  Cardinality(T) <= B
  <2>1. IsFiniteSet(S \cup {h}) /\ Cardinality(S \cup {h}) <= Cardinality(S) + 1
    <3>1. /\ IsFiniteSet(S \cup {h})
          /\ Cardinality(S \cup {h}) = IF h \in S THEN Cardinality(S) ELSE Cardinality(S) + 1
      BY <1>2, FS_AddElement
    <3>2. Cardinality(S) \in Nat
      BY <1>2, FS_CardinalityType
    <3>3. QED
      BY <3>1, <3>2
  <2>2. Cardinality(T) <= Cardinality(S \cup {h})
    BY <1>2, <2>1, FS_Subset
  <2>3. Cardinality(T) \in Nat /\ Cardinality(S) \in Nat /\ Cardinality(S \cup {h}) \in Nat
    BY <1>2, <2>1, FS_Subset, FS_CardinalityType
  <2>4. QED
    BY <1>2, <2>1, <2>2, <2>3
<1>3. Cardinality(Pending(r)) <= MaxPending
  BY <1>1, <1>2, EnrollmentAssumption DEF HasRoom
<1>4. ASSUME NEW g \in Handshake
      PROVE  Cardinality({k \in Pending(r) : SourceOf[k] = SourceOf[g]}) <= MaxPerSource
  <2> DEFINE R == {k \in Pending(r) : SourceOf[k] = SourceOf[g]}
             M == {k \in Pending(m) : SourceOf[k] = SourceOf[g]}
  <2>1. IsFiniteSet(M)
    BY <1>1, FS_Subset
  <2>2. CASE SourceOf[g] = SourceOf[h]
    <3>1. Cardinality(M) < MaxPerSource
      BY <2>2 DEF HasRoom
    <3>2. R \subseteq M \cup {h}
      OBVIOUS
    <3>3. QED
      BY <1>2, <2>1, <3>1, <3>2, EnrollmentAssumption
  <2>3. CASE SourceOf[g] # SourceOf[h]
    <3>1. R \subseteq M
      BY <2>3
    <3>2. /\ Cardinality(M) <= MaxPerSource
          /\ Cardinality(R) <= Cardinality(M) /\ Cardinality(R) \in Nat /\ Cardinality(M) \in Nat
      BY <2>1, <3>1, FS_Subset, FS_CardinalityType DEF Capacity
    <3>3. QED
      BY <3>2, EnrollmentAssumption
  <2>4. QED
    BY <2>2, <2>3
<1>5. \A k, g \in Pending(r) : CodeOf[k] = CodeOf[g] => k = g
  BY DEF Capacity, HasRoom
<1>6. QED
  BY <1>3, <1>4, <1>5 DEF Capacity

-----------------------------------------------------------------------------
(* The operations on a registry *)

\* Cleanup keeps a registry good.
LEMMA CleanupKeeps ==
    ASSUME NEW m, NEW d, NEW w, NEW s, RegistryOK(m, d)
    PROVE  /\ RegistryOK(Cleaned(m), d)
           /\ \A h \in Handshake : ForwardStatus(m.history[h], Cleaned(m).history[h])
           /\ KeysOK(m, w, s) => KeysOK(Cleaned(m), w, s)
<1> DEFINE c == Cleaned(m)
<1> HIDE DEF c
<1>1. /\ c \in Registry
      /\ c.authorized = m.authorized
      /\ \A h \in Handshake :
            \/ c.pending[h] = m.pending[h] /\ c.history[h] = m.history[h]
            \/ /\ c.pending[h] = "none"
               /\ m.pending[h] # "none"
               /\ c.history[h] = IF m.history[h] \in {100, 200} THEN 410 ELSE m.history[h]
  BY CleanedFacts DEF RegistryOK, c
<1>2. Capacity(c)
  <2>1. Pending(c) \subseteq Pending(m)
    BY <1>1 DEF Pending
  <2>2. QED
    BY <2>1, CapacityShrinks DEF RegistryOK
<1>3. RegistryOK(c, d)
  BY <1>1, <1>2 DEF RegistryOK
<1>4. \A h \in Handshake : ForwardStatus(m.history[h], c.history[h])
  BY <1>1 DEF ForwardStatus
<1>5. KeysOK(m, w, s) => KeysOK(c, w, s)
  BY <1>1, <1>4, ForwardTransitive DEF KeysOK
<1>6. QED
  BY <1>3, <1>4, <1>5 DEF c

\* A new handshake: never drawn before, so it has no history and is no key.
LEMMA RequestKeeps ==
    ASSUME NEW m, NEW d, d \subseteq Handshake, NEW w, NEW s, NEW h \in Handshake,
           RegistryOK(m, d), h \notin d, HasRoom(m, h), w \subseteq d
    PROVE  /\ RegistryOK(Marked(m, h, "pending", 100), d \cup {h})
           /\ Marked(m, h, "pending", 100).authorized = m.authorized
           /\ KeysOK(m, w, s) => KeysOK(Marked(m, h, "pending", 100), w, s)
<1> DEFINE r == Marked(m, h, "pending", 100)
<1> HIDE DEF r
<1>1. /\ r \in Registry
      /\ r.authorized = m.authorized
      /\ \A g \in Handshake :
            /\ r.pending[g] = IF g = h THEN "pending" ELSE m.pending[g]
            /\ r.history[g] = IF g = h THEN 100 ELSE m.history[g]
  BY MarkedFacts DEF RegistryOK, r
<1>2. Capacity(r)
  <2>1. Pending(r) \subseteq Pending(m) \cup {h}
    BY <1>1 DEF Pending
  <2>2. QED
    BY <2>1, CapacityGrows DEF RegistryOK
<1>3. RegistryOK(r, d \cup {h})
  BY <1>1, <1>2 DEF RegistryOK
<1>4. ASSUME KeysOK(m, w, s) PROVE KeysOK(r, w, s)
  <2>1. m.history[h] = 0 /\ ForwardStatus(s[h], 0)
    BY <1>4 DEF RegistryOK, KeysOK
  <2>2. ForwardStatus(s[h], 100)
    BY <2>1 DEF ForwardStatus
  <2>3. m.authorized[NodeOf[h]] # h
    BY EnrollmentAssumption DEF RegistryOK
  <2>4. QED
    BY <1>1, <1>4, <2>2, <2>3 DEF KeysOK
<1>5. QED
  BY <1>1, <1>3, <1>4 DEF r

\* The withdrawn keys after handshake h is approved.
Replaced(m, w, h) == w \cup ({m.authorized[NodeOf[h]]} \ {None, h})

\* An approval installs a key that was never withdrawn, and withdraws the key
\* it replaces.
LEMMA ApprovalKeeps ==
    ASSUME NEW m, NEW d, d \subseteq Handshake, NEW w, w \subseteq d, NEW s, NEW h \in Handshake,
           RegistryOK(m, d), m.pending[h] = "pending"
    PROVE  /\ RegistryOK(Approved(m, h), d)
           /\ Replaced(m, w, h) \subseteq d
           /\ \A n \in Node :
                 Approved(m, h).authorized[n] = IF n = NodeOf[h] THEN h ELSE m.authorized[n]
           /\ KeysOK(m, w, s) => KeysOK(Approved(m, h), Replaced(m, w, h), s)
<1> DEFINE n == NodeOf[h]
           r == Approved(m, h)
           v == Replaced(m, w, h)
<1> HIDE DEF n, r
<1> USE DEF Replaced
<1>1. n \in Node
  BY EnrollmentAssumption DEF n
<1>2. /\ r \in Registry
      /\ \A k \in Node : r.authorized[k] = IF k = n THEN h ELSE m.authorized[k]
      /\ \A g \in Handshake :
            /\ r.pending[g] = IF g = h THEN "approved" ELSE m.pending[g]
            /\ r.history[g] = IF g = h THEN 200 ELSE m.history[g]
  <2> DEFINE x == Marked(m, h, "approved", 200)
  <2> HIDE DEF x
  <2>1. /\ x \in Registry
        /\ x.authorized = m.authorized
        /\ \A g \in Handshake :
              /\ x.pending[g] = IF g = h THEN "approved" ELSE m.pending[g]
              /\ x.history[g] = IF g = h THEN 200 ELSE m.history[g]
    BY MarkedFacts DEF RegistryOK, x
  <2>2. r = [x EXCEPT !.authorized[n] = h]
    BY DEF r, Approved, x, n
  <2>3. /\ r \in Registry
        /\ r.pending = x.pending
        /\ r.history = x.history
        /\ \A k \in Node : r.authorized[k] = IF k = n THEN h ELSE x.authorized[k]
    <3>1. PICK keys : keys = [x.authorized EXCEPT ![n] = h]
      OBVIOUS
    <3>2. keys \in [Node -> Handshake \cup {None}]
      BY <2>1, <3>1 DEF Registry
    <3>3. r = [x EXCEPT !.authorized = keys]
      BY <2>2, <3>1
    <3>4. r \in Registry /\ r.pending = x.pending /\ r.history = x.history /\ r.authorized = keys
      BY <2>1, <3>2, <3>3 DEF Registry
    <3>5. QED
      BY <2>1, <3>1, <3>4 DEF Registry
  <2>4. QED
    BY <2>1, <2>3
<1>3. Capacity(r)
  <2>1. Pending(r) \subseteq Pending(m)
    BY <1>2 DEF Pending
  <2>2. QED
    BY <2>1, CapacityShrinks DEF RegistryOK
<1>4. RegistryOK(r, d)
  BY <1>2, <1>3 DEF RegistryOK, n
<1>5. v \subseteq d
  BY <1>1 DEF RegistryOK, n
<1>6. ASSUME KeysOK(m, w, s) PROVE KeysOK(r, v, s)
  <2>1. h \notin v
    BY <1>6 DEF KeysOK
  <2>2. ASSUME NEW k \in Node PROVE r.authorized[k] \notin v
    <3>1. CASE k = n
      BY <1>2, <2>1, <3>1
    <3>2. CASE k # n
      BY <1>1, <1>2, <1>6, <3>2 DEF KeysOK, RegistryOK, n
    <3>3. QED
      BY <3>1, <3>2
  <2>3. ASSUME NEW g \in Handshake, r.pending[g] = "pending"
        PROVE  g \notin v /\ r.authorized[NodeOf[g]] # g
    BY <1>1, <1>2, <1>6, <2>3, EnrollmentAssumption DEF KeysOK, RegistryOK, n
  <2>4. ASSUME NEW g \in Handshake, r.pending[g] = "approved"
        PROVE  r.authorized[NodeOf[g]] = g \/ g \in v
    <3>1. CASE g = h
      BY <1>1, <1>2, <3>1 DEF n
    <3>2. CASE g # h
      BY <1>1, <1>2, <1>6, <2>4, <3>2, EnrollmentAssumption DEF KeysOK, n
    <3>3. QED
      BY <3>1, <3>2
  <2>5. ASSUME NEW g \in Handshake PROVE ForwardStatus(s[g], r.history[g])
    <3>1. ForwardStatus(s[g], m.history[g])
      BY <1>6 DEF KeysOK
    <3>2. ForwardStatus(m.history[g], r.history[g])
      BY <1>2 DEF RegistryOK, ForwardStatus
    <3>3. QED
      BY <3>1, <3>2, ForwardTransitive
  <2>6. QED
    BY <2>2, <2>3, <2>4, <2>5 DEF KeysOK
<1> HIDE DEF Replaced
<1>7. QED
  BY <1>2, <1>4, <1>5, <1>6 DEF n, r

\* A rejection, repeated or not.
LEMMA RejectionKeeps ==
    ASSUME NEW m, NEW d, NEW w, NEW s, NEW h \in Handshake,
           RegistryOK(m, d), m.pending[h] \in {"pending", "rejected"}
    PROVE  /\ RegistryOK(Marked(m, h, "rejected", 403), d)
           /\ Marked(m, h, "rejected", 403).authorized = m.authorized
           /\ KeysOK(m, w, s) => KeysOK(Marked(m, h, "rejected", 403), w, s)
<1> DEFINE r == Marked(m, h, "rejected", 403)
<1> HIDE DEF r
<1>1. /\ r \in Registry
      /\ r.authorized = m.authorized
      /\ \A g \in Handshake :
            /\ r.pending[g] = IF g = h THEN "rejected" ELSE m.pending[g]
            /\ r.history[g] = IF g = h THEN 403 ELSE m.history[g]
  BY MarkedFacts DEF RegistryOK, r
<1>2. Capacity(r)
  <2>1. Pending(r) \subseteq Pending(m)
    BY <1>1 DEF Pending
  <2>2. QED
    BY <2>1, CapacityShrinks DEF RegistryOK
<1>3. RegistryOK(r, d)
  BY <1>1, <1>2 DEF RegistryOK
<1>4. \A g \in Handshake : ForwardStatus(m.history[g], r.history[g])
  BY <1>1 DEF RegistryOK, ForwardStatus
<1>5. KeysOK(m, w, s) => KeysOK(r, w, s)
  BY <1>1, <1>4, ForwardTransitive DEF KeysOK
<1>6. QED
  BY <1>1, <1>3, <1>5 DEF r

\* A revocation withdraws every key drawn for the node, pending ones included.
LEMMA RevocationKeeps ==
    ASSUME NEW m, NEW d, d \subseteq Handshake, NEW w, w \subseteq d, NEW s, NEW n \in Node,
           RegistryOK(m, d),
           NEW v, v = w \cup (d \cap HandshakesOf(n))
    PROVE  /\ RegistryOK(Revoked(m, n), d)
           /\ \A k \in Node : Revoked(m, n).authorized[k] = IF k = n THEN None ELSE m.authorized[k]
           /\ KeysOK(m, w, s) => KeysOK(Revoked(m, n), v, s)
<1> DEFINE r == Revoked(m, n)
           hs == Pending(m) \cap HandshakesOf(n)
<1> HIDE DEF r
<1>1. /\ r \in Registry
      /\ \A k \in Node : r.authorized[k] = IF k = n THEN None ELSE m.authorized[k]
      /\ \A g \in Handshake :
            /\ r.pending[g] = IF g \in hs THEN "none" ELSE m.pending[g]
            /\ r.history[g] = IF g \in hs THEN 403 ELSE m.history[g]
  <2> DEFINE x == Closed(m, hs, 403)
  <2> HIDE DEF x, hs
  <2>1. /\ x \in Registry
        /\ x.authorized = m.authorized
        /\ \A g \in Handshake :
              /\ x.pending[g] = IF g \in hs THEN "none" ELSE m.pending[g]
              /\ x.history[g] = IF g \in hs THEN 403 ELSE m.history[g]
    BY ClosedFacts DEF RegistryOK, x
  <2>2. r = [x EXCEPT !.authorized[n] = None]
    BY DEF r, Revoked, x, hs
  <2>3. /\ r \in Registry
        /\ r.pending = x.pending
        /\ r.history = x.history
        /\ \A k \in Node : r.authorized[k] = IF k = n THEN None ELSE x.authorized[k]
    <3>1. PICK keys : keys = [x.authorized EXCEPT ![n] = None]
      OBVIOUS
    <3>2. keys \in [Node -> Handshake \cup {None}]
      BY <2>1, <3>1 DEF Registry
    <3>3. r = [x EXCEPT !.authorized = keys]
      BY <2>2, <3>1
    <3>4. r \in Registry /\ r.pending = x.pending /\ r.history = x.history /\ r.authorized = keys
      BY <2>1, <3>2, <3>3 DEF Registry
    <3>5. QED
      BY <2>1, <3>1, <3>4 DEF Registry
  <2>4. QED
    BY <2>1, <2>3
<1>2. Capacity(r)
  <2>1. Pending(r) \subseteq Pending(m)
    BY <1>1 DEF Pending
  <2>2. QED
    BY <2>1, CapacityShrinks DEF RegistryOK
<1>3. \A g \in Handshake : g \in hs <=> NodeOf[g] = n /\ m.pending[g] # "none"
  BY DEF Pending, HandshakesOf
<1>4. \A g \in Handshake : g \in v <=> g \in w \/ (g \in d /\ NodeOf[g] = n)
  BY DEF HandshakesOf
<1>5. None \notin v
  BY EnrollmentAssumption DEF HandshakesOf
<1> HIDE DEF hs
<1>6. RegistryOK(r, d)
  BY <1>1, <1>2, <1>3, EnrollmentAssumption DEF RegistryOK
<1>7. ASSUME KeysOK(m, w, s) PROVE KeysOK(r, v, s)
  <2>1. ASSUME NEW k \in Node PROVE r.authorized[k] \notin v
    <3>1. CASE r.authorized[k] = None
      BY <1>5, <3>1
    <3>2. CASE r.authorized[k] # None
      BY <1>1, <1>4, <1>7, <3>2 DEF KeysOK, RegistryOK
    <3>3. QED
      BY <3>1, <3>2
  <2>2. ASSUME NEW g \in Handshake PROVE ForwardStatus(m.history[g], r.history[g])
    BY <1>1, <1>3 DEF RegistryOK, Registry, ForwardStatus
  <2>3. ASSUME NEW g \in Handshake
        PROVE  /\ r.pending[g] = "pending" => g \notin v /\ r.authorized[NodeOf[g]] # g
               /\ r.pending[g] = "approved" => r.authorized[NodeOf[g]] = g \/ g \in v
               /\ ForwardStatus(s[g], r.history[g])
    <3>1. CASE NodeOf[g] = n
      BY <1>1, <1>3, <1>7, <2>2, <3>1, ForwardTransitive DEF KeysOK
    <3>2. CASE NodeOf[g] # n
      BY <1>1, <1>3, <1>4, <1>7, <3>2, EnrollmentAssumption DEF KeysOK
    <3>3. QED
      BY <3>1, <3>2
  <2>4. QED
    BY <2>1, <2>3 DEF KeysOK
<1>8. QED
  BY <1>1, <1>6, <1>7 DEF r

\* A heartbeat completes the approved handshake of the node's key.
LEMMA CompletionKeeps ==
    ASSUME NEW m, NEW d, NEW w, NEW s, RegistryOK(m, d),
           NEW hs, \A h \in hs : h \in Handshake => m.pending[h] = "approved"
    PROVE  /\ RegistryOK(Closed(m, hs, 201), d)
           /\ Closed(m, hs, 201).authorized = m.authorized
           /\ KeysOK(m, w, s) => KeysOK(Closed(m, hs, 201), w, s)
<1> DEFINE r == Closed(m, hs, 201)
<1> HIDE DEF r
<1>1. /\ r \in Registry
      /\ r.authorized = m.authorized
      /\ \A g \in Handshake :
            /\ r.pending[g] = IF g \in hs THEN "none" ELSE m.pending[g]
            /\ r.history[g] = IF g \in hs THEN 201 ELSE m.history[g]
  BY ClosedFacts DEF RegistryOK, r
<1>2. Capacity(r)
  <2>1. Pending(r) \subseteq Pending(m)
    BY <1>1 DEF Pending
  <2>2. QED
    BY <2>1, CapacityShrinks DEF RegistryOK
<1>3. RegistryOK(r, d)
  BY <1>1, <1>2 DEF RegistryOK
<1>4. \A g \in Handshake : ForwardStatus(m.history[g], r.history[g])
  BY <1>1 DEF RegistryOK, ForwardStatus
<1>5. KeysOK(m, w, s) => KeysOK(r, w, s)
  BY <1>1, <1>4, ForwardTransitive DEF KeysOK
<1>6. QED
  BY <1>1, <1>3, <1>5 DEF r

-----------------------------------------------------------------------------
(* The steps of the coordinator *)

\* What every handler does to the registry: it stays good, it is written or a
\* restart finds the file as it was, and the keys that stop being authorized
\* are withdrawn.
Handled ==
    /\ RegistryOK(mem', drawn')
    /\ \/ disk' = mem'
       \/ /\ disk' = disk
          /\ \/ PersistMayFail
             \/ UNCHANGED <<withdrawn, shown>> /\ mem'.authorized = mem.authorized
    /\ drawn \subseteq drawn' /\ drawn' \subseteq Handshake
    /\ withdrawn \subseteq withdrawn' /\ withdrawn' \subseteq drawn'
    /\ KeysOK(mem, withdrawn, shown) =>
          /\ KeysOK(mem', withdrawn', shown')
          /\ \A h \in Handshake : ForwardStatus(shown[h], shown'[h])
    /\ \A n \in Node : \/ mem'.authorized[n] = mem.authorized[n]
                       \/ mem.authorized[n] \in withdrawn' \cup {None}

\* A file that could not be written is a case of PersistMayFail.
LEMMA PersistedFacts ==
    ASSUME NEW ok \in PersistOutcomes
    PROVE  Persisted(mem', ok) = mem' \/ (Persisted(mem', ok) = disk /\ PersistMayFail)
BY DEF PersistOutcomes, Persisted

\* A status equals or follows itself.
LEMMA ForwardReflexive == \A p : ForwardStatus(p, p) /\ ForwardStatus(0, p)
BY DEF ForwardStatus

\* Each handler of the coordinator does that.
LEMMA CoordinatorSteps ==
    ASSUME RegistryInv,
           \/ CleanupUnwritten \/ ListHandshakes
           \/ \E h \in Handshake :
                 RequestEnrollment(h) \/ ApproveHandshake(h) \/ RejectHandshake(h)
           \/ \E n \in Node : RevokeNode(n) \/ PollEnrollment(n) \/ Heartbeat(n)
    PROVE  Handled
<1> DEFINE c == Cleaned(mem)
<1> HIDE DEF c
<1>1. /\ drawn \subseteq Handshake
      /\ withdrawn \subseteq drawn
      /\ RegistryOK(mem, drawn)
  BY DEF RegistryInv, EnrollmentTypeOK
<1>2. /\ RegistryOK(c, drawn)
      /\ KeysOK(mem, withdrawn, shown) => KeysOK(c, withdrawn, shown)
      /\ c.authorized = mem.authorized
  BY <1>1, CleanupKeeps, CleanedFacts DEF RegistryOK, c
<1>3. CASE CleanupUnwritten
  <2>1. mem' = c /\ UNCHANGED <<disk, drawn, withdrawn, shown>>
    BY <1>3 DEF CleanupUnwritten, c
  <2>2. QED
    BY <1>1, <1>2, <2>1, ForwardReflexive DEF Handled
<1>4. CASE ListHandshakes
  <2>1. PICK ok \in PersistOutcomes :
           /\ mem' = c
           /\ disk' = Persisted(mem', ok)
           /\ shown' = [h \in Handshake |-> IF h \in Followed THEN mem'.history[h] ELSE 0]
           /\ UNCHANGED <<drawn, withdrawn>>
    BY <1>4 DEF ListHandshakes, c
  <2>2. ASSUME KeysOK(mem, withdrawn, shown), NEW h \in Handshake
        PROVE  ForwardStatus(shown'[h], c.history[h]) /\ ForwardStatus(shown[h], shown'[h])
    <3>1. CASE h \in Followed
      BY <1>2, <2>1, <2>2, <3>1, ForwardReflexive DEF KeysOK
    <3>2. CASE h \notin Followed
      <4>1. shown'[h] = 0
        BY <2>1, <3>2
      <4>2. shown[h] = 0
        BY <3>2 DEF RegistryInv, ShownFollowed
      <4>3. QED
        BY <4>1, <4>2, ForwardReflexive
    <3>3. QED
      BY <3>1, <3>2
  <2>3. KeysOK(mem, withdrawn, shown) =>
          /\ KeysOK(c, withdrawn, shown')
          /\ \A h \in Handshake : ForwardStatus(shown[h], shown'[h])
    BY <1>2, <2>2 DEF KeysOK
  <2>4. QED
    BY <1>1, <1>2, <2>1, <2>3, PersistedFacts DEF Handled
<1>5. ASSUME NEW h \in Handshake, RequestEnrollment(h) PROVE Handled
  <2> DEFINE r == Marked(c, h, "pending", 100)
  <2> HIDE DEF r
  <2>1. PICK ok \in PersistOutcomes :
           /\ h \notin drawn
           /\ HasRoom(c, h)
           /\ mem' = r
           /\ disk' = Persisted(mem', ok)
           /\ drawn' = drawn \cup {h}
           /\ UNCHANGED <<withdrawn, shown>>
    BY <1>5 DEF RequestEnrollment, c, r
  <2>2. /\ RegistryOK(r, drawn \cup {h})
        /\ r.authorized = c.authorized
        /\ KeysOK(c, withdrawn, shown) => KeysOK(r, withdrawn, shown)
    BY <1>1, <1>2, <2>1, RequestKeeps DEF r
  <2>3. QED
    BY <1>1, <1>2, <2>1, <2>2, PersistedFacts, ForwardReflexive DEF Handled
<1>6. ASSUME NEW h \in Handshake, ApproveHandshake(h) PROVE Handled
  <2> DEFINE r == Approved(c, h)
             v == Replaced(c, withdrawn, h)
  <2> HIDE DEF r, v
  <2>1. PICK ok \in PersistOutcomes :
           /\ c.pending[h] = "pending"
           /\ mem' = r
           /\ disk' = Persisted(mem', ok)
           /\ withdrawn' = v
           /\ UNCHANGED <<drawn, shown>>
    BY <1>2, <1>6 DEF ApproveHandshake, Installable, Replaced, c, r, v
  <2>2. /\ RegistryOK(r, drawn)
        /\ v \subseteq drawn
        /\ \A n \in Node : r.authorized[n] = IF n = NodeOf[h] THEN h ELSE c.authorized[n]
        /\ KeysOK(c, withdrawn, shown) => KeysOK(r, v, shown)
    BY <1>1, <1>2, <2>1, ApprovalKeeps DEF r, v
  <2>3. ASSUME NEW n \in Node
        PROVE  mem'.authorized[n] = mem.authorized[n] \/ mem.authorized[n] \in withdrawn' \cup {None}
    BY <1>2, <2>1, <2>2 DEF Replaced, v
  <2>4. withdrawn \subseteq v
    BY DEF Replaced, v
  <2>5. QED
    BY <1>1, <1>2, <2>1, <2>2, <2>3, <2>4, PersistedFacts, ForwardReflexive DEF Handled
<1>7. ASSUME NEW h \in Handshake, RejectHandshake(h) PROVE Handled
  <2> DEFINE r == Marked(c, h, "rejected", 403)
  <2> HIDE DEF r
  <2>1. PICK ok \in PersistOutcomes :
           /\ c.pending[h] \in {"pending", "rejected"}
           /\ mem' = r
           /\ disk' = Persisted(mem', ok)
           /\ UNCHANGED <<drawn, withdrawn, shown>>
    BY <1>7 DEF RejectHandshake, c, r
  <2>2. /\ RegistryOK(r, drawn)
        /\ r.authorized = c.authorized
        /\ KeysOK(c, withdrawn, shown) => KeysOK(r, withdrawn, shown)
    BY <1>2, <2>1, RejectionKeeps DEF r
  <2>3. QED
    BY <1>1, <1>2, <2>1, <2>2, PersistedFacts, ForwardReflexive DEF Handled
<1>8. ASSUME NEW n \in Node, RevokeNode(n) PROVE Handled
  <2> DEFINE r == Revoked(mem, n)
             v == withdrawn \cup (drawn \cap HandshakesOf(n))
  <2> HIDE DEF r
  <2>1. PICK ok \in PersistOutcomes :
           /\ mem' = r
           /\ disk' = Persisted(mem', ok)
           /\ withdrawn' = v
           /\ UNCHANGED <<drawn, shown>>
    BY <1>8 DEF RevokeNode, r
  <2>2. /\ RegistryOK(r, drawn)
        /\ \A k \in Node : r.authorized[k] = IF k = n THEN None ELSE mem.authorized[k]
        /\ KeysOK(mem, withdrawn, shown) => KeysOK(r, v, shown)
    BY <1>1, RevocationKeeps DEF r
  <2>3. ASSUME NEW k \in Node
        PROVE  mem'.authorized[k] = mem.authorized[k] \/ mem.authorized[k] \in withdrawn' \cup {None}
    BY <1>1, <2>1, <2>2 DEF RegistryOK, HandshakesOf
  <2>4. QED
    BY <1>1, <2>1, <2>2, <2>3, PersistedFacts, ForwardReflexive DEF Handled
<1>9. ASSUME NEW n \in Node, PollEnrollment(n) PROVE Handled
  <2>1. PICK ok \in PersistOutcomes :
           /\ mem' = c
           /\ disk' = Persisted(mem', ok)
           /\ UNCHANGED <<drawn, withdrawn, shown>>
    BY <1>9 DEF PollEnrollment, c
  <2>2. QED
    BY <1>1, <1>2, <2>1, PersistedFacts, ForwardReflexive DEF Handled
<1>10. ASSUME NEW n \in Node, Heartbeat(n) PROVE Handled
  <2> DEFINE hs == {h \in {worker[n].copy.cred} : mem.pending[h] = "approved"}
             x == Closed(mem, hs, 201)
  <2> HIDE DEF x, hs
  <2>1. PICK ok \in PersistOutcomes :
           /\ mem' = Cleaned(x)
           /\ disk' = Persisted(mem', ok)
           /\ UNCHANGED <<drawn, withdrawn, shown>>
    BY <1>10 DEF Heartbeat, x, hs
  <2>2. /\ RegistryOK(x, drawn)
        /\ x.authorized = mem.authorized
        /\ KeysOK(mem, withdrawn, shown) => KeysOK(x, withdrawn, shown)
    <3>1. \A h \in hs : h \in Handshake => mem.pending[h] = "approved"
      BY DEF hs
    <3>2. QED
      BY <1>1, <3>1, CompletionKeeps DEF x
  <2>3. /\ RegistryOK(Cleaned(x), drawn)
        /\ Cleaned(x).authorized = x.authorized
        /\ KeysOK(x, withdrawn, shown) => KeysOK(Cleaned(x), withdrawn, shown)
    BY <2>2, CleanupKeeps, CleanedFacts DEF RegistryOK
  <2>4. QED
    BY <1>1, <2>1, <2>2, <2>3, PersistedFacts, ForwardReflexive DEF Handled
<1>11. QED
  BY <1>3, <1>4, <1>5, <1>6, <1>7, <1>8, <1>9, <1>10

-----------------------------------------------------------------------------
(* The steps of the nodes, and of the coordinator's process *)

\* What the nodes know keeps its type, and they ask about handshakes of theirs.
LEMMA NodeSteps ==
    ASSUME RegistryInv, Next
    PROVE  /\ profile' \in [Node -> Profile]
           /\ worker' \in [Node -> [pc : {"idle", "asking", "approved", "rejected", "running"},
                                    copy : Profile]]
           /\ \A n \in Node : NodeOK(n)'
<1> DEFINE W == [pc : {"idle", "asking", "approved", "rejected", "running"}, copy : Profile]
<1>1. /\ profile \in [Node -> Profile]
      /\ worker \in [Node -> W]
      /\ \A n \in Node : NodeOK(n)
  BY DEF RegistryInv, EnrollmentTypeOK
<1>2. Blank \in Profile /\ IdleWorker \in W
  BY DEF Blank, IdleWorker, Profile
<1>3. ASSUME NEW h \in Handshake, profile' = [profile EXCEPT ![NodeOf[h]] = PendingProfile(h)],
             worker' = worker
      PROVE  profile' \in [Node -> Profile] /\ \A n \in Node : NodeOK(n)'
  <2>1. /\ PendingProfile(h) \in Profile
        /\ PendingProfile(h).enroll = h
    BY DEF PendingProfile, Profile
  <2>2. NodeOf[h] \in Node /\ h # None
    BY EnrollmentAssumption
  <2>3. QED
    BY <1>1, <1>3, <2>1, <2>2 DEF NodeOK
<1>4. ASSUME NEW n \in Node, LoadProfile(n)
      PROVE  worker' \in [Node -> W] /\ \A k \in Node : NodeOK(k)'
  <2> DEFINE x == [pc |-> IF profile[n].cred # None THEN "running" ELSE "asking",
                   copy |-> profile[n]]
  <2>1. x \in W /\ x.copy = profile[n] /\ (x.pc = "asking" <=> profile[n].cred = None)
           /\ x.pc \in {"running", "asking"}
    BY <1>1
  <2> HIDE DEF x
  <2>2. profile[n] # Blank /\ profile' = profile /\ worker' = [worker EXCEPT ![n] = x]
    BY <1>4 DEF LoadProfile, x
  <2>3. QED
    BY <1>1, <2>1, <2>2 DEF NodeOK
<1>5. ASSUME NEW n \in Node, NEW q \in {"approved", "rejected"}, worker[n].pc = "asking",
             worker' = [worker EXCEPT ![n] = [@ EXCEPT !.pc = q]], profile' = profile
      PROVE  worker' \in [Node -> W] /\ \A k \in Node : NodeOK(k)'
  <2>1. PICK x : x = [worker[n] EXCEPT !.pc = q]
    OBVIOUS
  <2>2. x \in W /\ x.pc = q /\ x.copy = worker[n].copy
    BY <1>1, <2>1
  <2>3. worker' = [worker EXCEPT ![n] = x]
    BY <1>5, <2>1
  <2>4. QED
    BY <1>1, <1>5, <2>2, <2>3 DEF NodeOK
<1>6. ASSUME NEW n \in Node, worker' = [worker EXCEPT ![n] = IdleWorker], profile' = profile
      PROVE  worker' \in [Node -> W] /\ \A k \in Node : NodeOK(k)'
  BY <1>1, <1>2, <1>6 DEF NodeOK, IdleWorker
<1>7. ASSUME NEW n \in Node, SaveAnswer(n)
      PROVE  /\ profile' \in [Node -> Profile]
             /\ worker' \in [Node -> W]
             /\ \A k \in Node : NodeOK(k)'
  <2> DEFINE loaded == worker[n].copy
             kept == [enroll |-> None, status |-> "none", cred |-> loaded.enroll]
             refused == [loaded EXCEPT !.status = "rejected"]
  <2>1. loaded \in Profile
    BY <1>1
  <2>2. CASE /\ worker[n].pc = "approved"
             /\ profile' = profile \/ profile' = [profile EXCEPT ![n] = kept]
             /\ worker' = [worker EXCEPT ![n] = [pc |-> "running", copy |-> kept]]
    <3>1. kept \in Profile /\ kept.enroll = None /\ kept.cred # None
      BY <1>1, <2>1, <2>2 DEF Profile, NodeOK
    <3> HIDE DEF kept
    <3>2. QED
      BY <1>1, <2>2, <3>1 DEF NodeOK
  <2>3. CASE /\ worker[n].pc = "rejected"
             /\ profile' = profile \/ profile' = [profile EXCEPT ![n] = refused]
             /\ worker' = [worker EXCEPT ![n] = IdleWorker]
    <3>1. /\ refused \in Profile
          /\ refused.enroll = loaded.enroll
          /\ refused.cred = loaded.cred
      BY <2>1 DEF Profile
    <3> HIDE DEF refused
    <3>2. QED
      BY <1>1, <1>2, <2>3, <3>1 DEF NodeOK, IdleWorker
  <2>4. QED
    BY <1>7, <2>2, <2>3 DEF SaveAnswer
<1>8. CASE UNCHANGED <<profile, worker>>
  BY <1>1, <1>8 DEF NodeOK
<1>9. ASSUME NEW h \in Handshake, RequestEnrollment(h)
      PROVE  \/ UNCHANGED <<profile, worker>>
             \/ /\ profile' = [profile EXCEPT ![NodeOf[h]] = PendingProfile(h)]
                /\ worker' = worker
  BY <1>9 DEF RequestEnrollment
<1>10. ASSUME NEW n \in Node, PollEnrollment(n)
       PROVE  /\ profile' = profile
              /\ \/ worker' = [worker EXCEPT ![n] = IdleWorker]
                 \/ \E q \in {"approved", "rejected"} :
                       /\ worker[n].pc = "asking"
                       /\ worker' = [worker EXCEPT ![n] = [@ EXCEPT !.pc = q]]
  BY <1>10 DEF PollEnrollment
<1>11. CASE \E h \in Handshake : RequestEnrollment(h)
  BY <1>1, <1>3, <1>8, <1>9, <1>11
<1>12. CASE \E n \in Node : LoadProfile(n)
  BY <1>1, <1>4, <1>12 DEF LoadProfile
<1>13. CASE \E n \in Node : PollEnrollment(n)
  BY <1>1, <1>5, <1>6, <1>10, <1>13
<1>14. CASE \E n \in Node : PollLost(n) \/ NodeRestart(n)
  BY <1>1, <1>6, <1>14 DEF PollLost, NodeRestart
<1>15. QED
  BY <1>7, <1>8, <1>11, <1>12, <1>13, <1>14
  DEF Next, Tick, CoordinatorRestart, CleanupUnwritten, ListHandshakes, ApproveHandshake,
      RejectHandshake, RevokeNode, Heartbeat

\* The handlers of the coordinator, its restart, and the steps that leave the
\* registry and the ghosts alone.
LEMMA NextCases ==
    ASSUME RegistryInv, Next
    PROVE  \/ Handled
           \/ MayRestart /\ mem' = disk /\ UNCHANGED <<disk, drawn, withdrawn, shown>>
           \/ UNCHANGED <<mem, disk, drawn, withdrawn, shown>>
<1>1. CASE \/ CleanupUnwritten \/ ListHandshakes
           \/ \E h \in Handshake :
                 RequestEnrollment(h) \/ ApproveHandshake(h) \/ RejectHandshake(h)
           \/ \E n \in Node : RevokeNode(n) \/ PollEnrollment(n) \/ Heartbeat(n)
  BY <1>1, CoordinatorSteps
<1>2. CASE CoordinatorRestart
  BY <1>2 DEF CoordinatorRestart
<1>3. CASE Tick \/ \E n \in Node : LoadProfile(n) \/ PollLost(n) \/ SaveAnswer(n) \/ NodeRestart(n)
  BY <1>3 DEF Tick, LoadProfile, PollLost, SaveAnswer, NodeRestart
<1>4. QED
  BY <1>1, <1>2, <1>3 DEF Next

\* The time that is left and the shown statuses keep their types.
LEMMA GhostSteps ==
    ASSUME RegistryInv, Next, mem' \in Registry
    PROVE  /\ left' \in [Handshake -> 0..Lifetime]
           /\ shown' \in [Handshake -> {0, 100, 200, 201, 403, 410}]
           /\ ShownFollowed'
<1>1. /\ left \in [Handshake -> 0..Lifetime]
      /\ shown \in [Handshake -> {0, 100, 200, 201, 403, 410}]
      /\ ShownFollowed
  BY DEF RegistryInv, EnrollmentTypeOK
<1>2. left' \in [Handshake -> 0..Lifetime]
  <2>1. CASE UNCHANGED left
    BY <1>1, <2>1
  <2>2. ASSUME NEW h \in Handshake, left' = [left EXCEPT ![h] = Lifetime]
        PROVE  left' \in [Handshake -> 0..Lifetime]
    BY <1>1, <2>2, EnrollmentAssumption
  <2>3. CASE Tick
    BY <1>1, <2>3, EnrollmentAssumption DEF Tick
  <2>4. QED
    BY <2>1, <2>2, <2>3
    DEF Next, CoordinatorRestart, CleanupUnwritten, ListHandshakes, RequestEnrollment,
        ApproveHandshake, RejectHandshake, RevokeNode, LoadProfile, PollEnrollment, PollLost,
        SaveAnswer, Heartbeat, NodeRestart
<1>3. CASE UNCHANGED shown
  BY <1>1, <1>2, <1>3 DEF ShownFollowed
<1>4. CASE ListHandshakes
  <2>1. shown' = [h \in Handshake |-> IF h \in Followed THEN mem'.history[h] ELSE 0]
    BY <1>4 DEF ListHandshakes
  <2>2. mem'.history \in [Handshake -> {0, 100, 200, 201, 403, 410}]
    BY DEF Registry
  <2>3. QED
    BY <1>2, <2>1, <2>2 DEF ShownFollowed
<1>5. QED
  BY <1>3, <1>4
  DEF Next, Tick, CoordinatorRestart, CleanupUnwritten, RequestEnrollment,
      ApproveHandshake, RejectHandshake, RevokeNode, LoadProfile, PollEnrollment, PollLost,
      SaveAnswer, Heartbeat, NodeRestart

-----------------------------------------------------------------------------
(* Theorems *)

\* A registry that is good when the handshakes d are drawn is good when more are.
LEMMA DrawnGrows ==
    ASSUME NEW m, NEW d, NEW e, d \subseteq e, RegistryOK(m, d)
    PROVE  RegistryOK(m, e)
BY DEF RegistryOK

\* The invariant of the registry, of the memory and of the file, whatever is
\* written or lost.
THEOREM RegistryInvariant == Spec => []RegistryInv
<1>1. ASSUME Init PROVE RegistryInv
  <2> DEFINE m == [pending |-> [h \in Handshake |-> "none"],
                   authorized |-> [n \in Node |-> None],
                   history |-> [h \in Handshake |-> 0]]
  <2>1. m \in Registry
    BY DEF Registry
  <2>2. Pending(m) = {}
    BY DEF Pending
  <2>3. \A h \in Handshake : {g \in Pending(m) : SourceOf[g] = SourceOf[h]} = {}
    BY <2>2
  <2>4. Capacity(m)
    BY <2>2, <2>3, FS_EmptySet, EnrollmentAssumption DEF Capacity
  <2>5. RegistryOK(m, {})
    BY <2>1, <2>4 DEF RegistryOK
  <2> HIDE DEF m
  <2>6. mem = m /\ disk = m /\ drawn = {} /\ withdrawn = {}
    BY <1>1 DEF Init, m
  <2>7. profile \in [Node -> Profile]
    BY <1>1 DEF Init, Blank, Profile
  <2>8. worker \in [Node -> [pc : {"idle", "asking", "approved", "rejected", "running"},
                             copy : Profile]]
    BY <1>1 DEF Init, IdleWorker, Blank, Profile
  <2>9. \A n \in Node : NodeOK(n)
    BY <1>1 DEF Init, NodeOK, IdleWorker, Blank
  <2>10. left \in [Handshake -> 0..Lifetime]
    BY <1>1, EnrollmentAssumption DEF Init
  <2>11. shown \in [Handshake -> {0, 100, 200, 201, 403, 410}] /\ ShownFollowed
    BY <1>1 DEF Init, ShownFollowed
  <2>12. EnrollmentTypeOK
    BY <2>1, <2>4, <2>6, <2>7, <2>8, <2>10, <2>11 DEF EnrollmentTypeOK
  <2>13. QED
    BY <2>5, <2>6, <2>9, <2>11, <2>12 DEF RegistryInv
<1>2. ASSUME RegistryInv, [Next]_vars PROVE RegistryInv'
  <2>1. CASE UNCHANGED vars
    BY <1>2, <2>1
    DEF vars, RegistryInv, EnrollmentTypeOK, RegistryOK, Capacity, Pending, NodeOK, ShownFollowed
  <2>2. CASE Next
    <3>1. /\ RegistryOK(mem', drawn')
          /\ RegistryOK(disk', drawn')
          /\ withdrawn' \subseteq drawn' /\ drawn' \subseteq Handshake
      <4>1. CASE Handled
        BY <1>2, <4>1, DrawnGrows DEF Handled, RegistryInv
      <4>2. CASE mem' = disk /\ UNCHANGED <<disk, drawn, withdrawn, shown>>
        BY <1>2, <4>2 DEF RegistryInv, EnrollmentTypeOK
      <4>3. CASE UNCHANGED <<mem, disk, drawn, withdrawn, shown>>
        BY <1>2, <4>3 DEF RegistryInv, EnrollmentTypeOK
      <4>4. QED
        BY <1>2, <2>2, <4>1, <4>2, <4>3, NextCases
    <3>2. mem' \in Registry /\ disk' \in Registry /\ Capacity(mem')
      BY <3>1 DEF RegistryOK
    <3>3. EnrollmentTypeOK'
      BY <1>2, <2>2, <3>1, <3>2, NodeSteps, GhostSteps DEF EnrollmentTypeOK
    <3>4. (\A n \in Node : NodeOK(n)') /\ ShownFollowed'
      BY <1>2, <2>2, <3>2, NodeSteps, GhostSteps
    <3>5. QED
      BY <3>1, <3>3, <3>4 DEF RegistryInv
  <2>3. QED
    BY <1>2, <2>1, <2>2
<1>3. QED
  BY <1>1, <1>2, PTL DEF Spec

\* Types, capacities and unambiguous device codes, whatever is written or lost.
THEOREM EnrollmentTypeCorrect == Spec => []EnrollmentTypeOK
<1>1. RegistryInv => EnrollmentTypeOK
  BY DEF RegistryInv
<1>2. QED
  BY <1>1, RegistryInvariant, PTL

\* A step keeps what the registries know of keys, if a restart uncovers no
\* failed write, and the status it shows moves on.
LEMMA KeysStep ==
    ASSUME Durable, RegistryInv, KeysInv, Next
    PROVE  KeysInv' /\ \A h \in Handshake : ForwardStatus(shown[h], shown'[h])
<1>1. CASE Handled
  <2>1. KeysOK(mem', withdrawn', shown')
    BY <1>1 DEF Handled, KeysInv
  <2>2. MayRestart => KeysOK(disk', withdrawn', shown')
    BY <1>1, <2>1 DEF Handled, KeysInv, Durable
  <2>3. QED
    BY <1>1, <2>1, <2>2 DEF Handled, KeysInv
<1>2. CASE MayRestart /\ mem' = disk /\ UNCHANGED <<disk, drawn, withdrawn, shown>>
  BY <1>2, ForwardReflexive DEF KeysInv
<1>3. CASE UNCHANGED <<mem, disk, drawn, withdrawn, shown>>
  BY <1>3, ForwardReflexive DEF KeysInv
<1>4. QED
  BY <1>1, <1>2, <1>3, NextCases

\* What the registries know of keys.
THEOREM KeysInvariant ==
    ASSUME Durable
    PROVE  Spec => []KeysInv
<1>1. ASSUME Init PROVE KeysInv
  <2>1. KeysOK(mem, {}, shown)
    BY <1>1 DEF Init, KeysOK, ForwardStatus
  <2>2. QED
    BY <1>1, <2>1 DEF Init, KeysInv
<1>2. ASSUME RegistryInv, KeysInv, [Next]_vars PROVE KeysInv'
  <2>1. CASE UNCHANGED vars
    BY <1>2, <2>1 DEF vars, KeysInv
  <2>2. CASE Next
    BY <1>2, <2>2, KeysStep
  <2>3. QED
    BY <1>2, <2>1, <2>2
<1>3. QED
  BY <1>1, <1>2, RegistryInvariant, PTL DEF Spec

\* A key that was replaced or revoked is never authorized again, neither by an
\* old handshake nor by a restart, unless a write failed and a restart uncovers
\* the file.
THEOREM NoKeyResurrected ==
    ASSUME Durable
    PROVE  Spec => []NoResurrection
<1>1. KeysInv => NoResurrection
  BY DEF KeysInv, KeysOK, NoResurrection
<1>2. QED
  BY <1>1, KeysInvariant, PTL

\* The status shown of a handshake only moves on, under the same condition.
THEOREM StatusMovesForward ==
    ASSUME Durable
    PROVE  Spec => StatusForward
<1>1. ASSUME RegistryInv, KeysInv, [Next]_vars
      PROVE  [\A h \in Handshake : ForwardStatus(shown[h], shown'[h])]_vars
  BY <1>1, KeysStep
<1>2. QED
  BY <1>1, RegistryInvariant, KeysInvariant, PTL DEF Spec, StatusForward

\* A credential comes from the profile, or from an approved answer.
LEMMA CredentialSteps ==
    ASSUME RegistryInv, Next, NEW n \in Node
    PROVE  /\ \/ profile'[n].cred \in {None, profile[n].cred}
              \/ worker[n].pc = "approved" /\ profile'[n].cred = worker[n].copy.enroll
           /\ \/ worker'[n].copy.cred \in {None, worker[n].copy.cred, profile[n].cred}
              \/ worker[n].pc = "approved" /\ worker'[n].copy.cred = worker[n].copy.enroll
<1>1. /\ profile \in [Node -> Profile]
      /\ worker \in [Node -> [pc : {"idle", "asking", "approved", "rejected", "running"},
                              copy : Profile]]
      /\ NodeOK(n)
  BY DEF RegistryInv, EnrollmentTypeOK
<1>2. CASE UNCHANGED <<profile, worker>>
  BY <1>2
<1>3. CASE \E h \in Handshake : RequestEnrollment(h)
  BY <1>1, <1>3, EnrollmentAssumption DEF RequestEnrollment, PendingProfile
<1>4. ASSUME NEW k \in Node, LoadProfile(k)
      PROVE  profile'[n].cred = profile[n].cred
             /\ worker'[n].copy.cred \in {worker[n].copy.cred, profile[n].cred}
  BY <1>1, <1>4 DEF LoadProfile
<1>5. ASSUME NEW k \in Node, PollEnrollment(k) \/ PollLost(k) \/ NodeRestart(k)
      PROVE  profile'[n].cred = profile[n].cred
             /\ worker'[n].copy.cred \in {None, worker[n].copy.cred}
  BY <1>1, <1>5 DEF PollEnrollment, PollLost, NodeRestart, IdleWorker, Blank
<1>6. ASSUME NEW k \in Node, SaveAnswer(k), k # n
      PROVE  profile'[n] = profile[n] /\ worker'[n] = worker[n]
  BY <1>1, <1>6 DEF SaveAnswer
<1>7. ASSUME SaveAnswer(n)
      PROVE  \/ /\ worker[n].pc = "approved"
                /\ profile'[n].cred \in {profile[n].cred, worker[n].copy.enroll}
                /\ worker'[n].copy.cred = worker[n].copy.enroll
             \/ /\ profile'[n].cred \in {None, profile[n].cred}
                /\ worker'[n].copy.cred = None
  <2> DEFINE loaded == worker[n].copy
             kept == [enroll |-> None, status |-> "none", cred |-> loaded.enroll]
             refused == [loaded EXCEPT !.status = "rejected"]
  <2>1. refused.cred = loaded.cred
    BY <1>1 DEF Profile
  <2>2. worker[n].pc = "rejected" => loaded.cred = None
    BY <1>1 DEF NodeOK
  <2>3. CASE worker[n].pc = "approved"
    <3>1. /\ profile' = profile \/ profile' = [profile EXCEPT ![n] = kept]
          /\ worker' = [worker EXCEPT ![n] = [pc |-> "running", copy |-> kept]]
      BY <1>7, <2>3 DEF SaveAnswer
    <3>2. kept.cred = loaded.enroll
      OBVIOUS
    <3> HIDE DEF kept
    <3>3. /\ profile'[n] = profile[n] \/ profile'[n] = kept
          /\ worker'[n].copy = kept
      BY <1>1, <3>1
    <3>4. QED
      BY <2>3, <3>2, <3>3
  <2>4. CASE worker[n].pc = "rejected"
    <3>1. /\ profile' = profile \/ profile' = [profile EXCEPT ![n] = refused]
          /\ worker' = [worker EXCEPT ![n] = IdleWorker]
      BY <1>7, <2>4 DEF SaveAnswer
    <3> HIDE DEF refused
    <3>2. profile'[n] \in {profile[n], refused} /\ worker'[n] = IdleWorker
      BY <1>1, <3>1
    <3>3. QED
      BY <2>1, <2>2, <2>4, <3>2 DEF IdleWorker, Blank
  <2>5. QED
    BY <1>7, <2>3, <2>4 DEF SaveAnswer
<1>8. QED
  BY <1>2, <1>3, <1>4, <1>5, <1>6, <1>7
  DEF Next, Tick, CoordinatorRestart, CleanupUnwritten, ListHandshakes, ApproveHandshake,
      RejectHandshake, RevokeNode, Heartbeat

\* What a node keeps as its credential is authorized in the file or withdrawn
\* since, when no write fails.
THEOREM CredentialsBacked ==
    ASSUME ~PersistMayFail
    PROVE  Spec => []CredentialBacked
<1> DEFINE Backed(n, key) == disk.authorized[n] = key \/ key \in withdrawn
           BackedNext(n, key) == disk'.authorized[n] = key \/ key \in withdrawn'
<1>1. Durable
  BY DEF Durable
<1>2. ASSUME Init PROVE BackedInv
  BY <1>2 DEF Init, BackedInv, CredentialBacked, IdleWorker, Blank
<1>3. ASSUME RegistryInv, KeysInv, BackedInv, Next PROVE BackedInv'
  <2>1. KeysOK(mem', withdrawn', shown')
    BY <1>1, <1>3, KeysStep DEF KeysInv
  <2>2. disk'.authorized = mem'.authorized
    BY <1>3, NextCases DEF Handled, BackedInv
  <2>3. ASSUME NEW n \in Node, NEW key \in Handshake, Backed(n, key)
        PROVE  BackedNext(n, key)
    <3>1. key # None
      BY EnrollmentAssumption
    <3>2. disk.authorized[n] = mem.authorized[n] /\ disk'.authorized[n] = mem'.authorized[n]
      BY <1>3, <2>2 DEF BackedInv
    <3>3. QED
      BY <1>3, <2>3, <3>1, <3>2, NextCases DEF Handled, BackedInv
  <2>4. \A n \in Node : /\ profile[n] \in Profile /\ profile'[n] \in Profile
                        /\ worker[n].copy \in Profile /\ worker'[n].copy \in Profile
                        /\ NodeOK(n)
    BY <1>3, NodeSteps DEF RegistryInv, EnrollmentTypeOK
  <2>5. ASSUME NEW n \in Node, worker'[n].pc = "approved", worker'[n] # worker[n]
        PROVE  BackedNext(n, worker'[n].copy.enroll)
    <3>1. PollEnrollment(n) /\ worker[n].pc = "asking" /\ worker'[n].copy = worker[n].copy
          /\ Cleaned(mem).pending[worker[n].copy.enroll] = "approved"
      <4>1. worker \in [Node -> [pc : {"idle", "asking", "approved", "rejected", "running"},
                                 copy : Profile]]
        BY <1>3 DEF RegistryInv, EnrollmentTypeOK
      <4>2. PICK k \in Node : LoadProfile(k) \/ PollEnrollment(k) \/ PollLost(k)
                              \/ SaveAnswer(k) \/ NodeRestart(k)
        BY <1>3, <2>5
        DEF Next, Tick, CoordinatorRestart, CleanupUnwritten, ListHandshakes, RequestEnrollment,
            ApproveHandshake, RejectHandshake, RevokeNode, Heartbeat
      <4>3. k = n
        BY <2>5, <4>1, <4>2 DEF LoadProfile, PollEnrollment, PollLost, SaveAnswer, NodeRestart
      <4>4. PollEnrollment(n)
        BY <2>5, <4>1, <4>2, <4>3 DEF LoadProfile, PollLost, SaveAnswer, NodeRestart, IdleWorker
      <4>5. QED
        BY <2>5, <4>1, <4>4 DEF PollEnrollment, IdleWorker
    <3>2. mem' = Cleaned(mem)
      BY <3>1 DEF PollEnrollment
    <3>3. worker[n].copy.enroll \in Handshake /\ NodeOf[worker[n].copy.enroll] = n
      BY <2>4, <3>1 DEF NodeOK, Profile
    <3>4. QED
      BY <2>1, <2>2, <3>1, <3>2, <3>3 DEF KeysOK
  <2>6. ASSUME NEW n \in Node, worker'[n].pc = "approved"
        PROVE  BackedNext(n, worker'[n].copy.enroll)
    <3>1. CASE worker'[n] = worker[n]
      <4>1. worker[n].copy.enroll \in Handshake /\ Backed(n, worker[n].copy.enroll)
        BY <1>3, <2>4, <2>6, <3>1 DEF NodeOK, Profile, BackedInv
      <4>2. QED
        BY <2>3, <3>1, <4>1
    <3>2. QED
      BY <2>5, <2>6, <3>1
  <2>7. ASSUME NEW n \in Node
        PROVE  /\ \/ profile'[n].cred \in {None, profile[n].cred}
                  \/ worker[n].pc = "approved" /\ profile'[n].cred = worker[n].copy.enroll
               /\ \/ worker'[n].copy.cred \in {None, worker[n].copy.cred, profile[n].cred}
                  \/ worker[n].pc = "approved" /\ worker'[n].copy.cred = worker[n].copy.enroll
    BY <1>3, CredentialSteps
  <2>8. ASSUME NEW n \in Node, NEW key \in {profile'[n].cred, worker'[n].copy.cred} \ {None}
        PROVE  BackedNext(n, key)
    <3>1. key \in Handshake
      BY <2>4, <2>8 DEF Profile
    <3>2. Backed(n, key)
      BY <1>3, <2>7, <2>8 DEF BackedInv, CredentialBacked
    <3>3. QED
      BY <2>3, <3>1, <3>2
  <2>9. QED
    BY <2>2, <2>6, <2>8 DEF BackedInv, CredentialBacked
<1>4. ASSUME BackedInv, UNCHANGED vars PROVE BackedInv'
  BY <1>4 DEF vars, BackedInv, CredentialBacked
<1>5. BackedInv => CredentialBacked
  BY DEF BackedInv
<1>6. QED
  BY <1>1, <1>2, <1>3, <1>4, <1>5, RegistryInvariant, KeysInvariant, PTL DEF Spec

=============================================================================

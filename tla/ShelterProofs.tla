---------------------------- MODULE ShelterProofs ----------------------------
(***************************************************************************)
(* Proofs about shelter intake, for any number of shelters, beds, victims, *)
(* handlers and replicas, with crashes and a failing cache.                *)
(*                                                                         *)
(* OccupancyExact and NoOverflow are not inductive: a commit adds one to a *)
(* counter it wrote earlier, so the invariant must say that a handler that *)
(* has claimed a bed still has the only claim on the row (ClaimsOK), and   *)
(* that its victim is nobody else's and not placed yet (VictimsOK).        *)
(***************************************************************************)
EXTENDS ShelterIntake, FiniteSetTheorems, TLAPS

Assigning(p) == pc[p] \in {"admit", "commit"}

\* A victim has a shelter once placed; the victim of an assignment under way has
\* none and belongs to one handler.
VictimsOK ==
  /\ \A v \in Victims : vShelter[v] # None <=> vStatus[v] = "sheltered"
  /\ \A p \in Procs : Assigning(p) =>
       /\ req[p].victim \in Victims /\ vStatus[req[p].victim] = "registered"
       /\ req[p].shelter \in Shelters
  /\ \A p, q \in Procs :
       Assigning(p) /\ Assigning(q) /\ req[p].victim = req[q].victim => p = q
  /\ \A p \in Procs : pc[p] = "invalidate" => req[p].shelter \in Shelters

\* A claimed bed is the only one in doubt in its shelter, which is open and had
\* room when it was claimed and still has.
ClaimsOK ==
  /\ \A p \in Procs : pc[p] = "commit" =>
       /\ sStatus[req[p].shelter] = "open"
       /\ req[p].occupancy = occupancy[req[p].shelter] + 1
       /\ req[p].occupancy <= Capacity[req[p].shelter]
  /\ \A p, q \in Procs :
       pc[p] = "commit" /\ pc[q] = "commit" /\ req[p].shelter = req[q].shelter => p = q

WithinCapacity == \A s \in Shelters : occupancy[s] <= Capacity[s]
\* A shelter that is not registered has nobody in it.
AbsentEmpty == \A s \in Shelters : sStatus[s] = "absent" => occupancy[s] = 0

IInv == TypeOK /\ VictimsOK /\ ClaimsOK /\ WithinCapacity /\ AbsentEmpty /\ OccupancyExact

-----------------------------------------------------------------------------
(* Types.                                                                   *)

LEMMA TypeInit == ASSUME Init PROVE TypeOK
  BY ShelterAssumption DEF Init, TypeOK, NoReq, NoRow, Rows, OpenOrClosed

\* The part of the type invariant about the database and the handlers.
RowTypes ==
  /\ vStatus \in [Victims -> {"absent", "registered", "sheltered"}]
  /\ vShelter \in [Victims -> Shelters \cup {None}]
  /\ sStatus \in [Shelters -> OpenOrClosed \cup {"absent"}]
  /\ occupancy \in [Shelters -> Nat]
  /\ outbox \subseteq [victim : Victims, shelter : Shelters, occupancy : Nat]
  /\ pc \in [Procs -> {"idle", "admit", "commit", "invalidate"}]
  /\ req \in [Procs -> [victim : Victims \cup {None}, shelter : Shelters \cup {None},
                        occupancy : Nat]]
  /\ toggles \in 0 .. MaxToggles
CacheTypes ==
  /\ cache \in [Shelters -> Rows \cup {NoRow}]
  /\ flight \in [Replicas -> [Shelters -> Rows \cup {NoRow, Loading}]]
  /\ excused \subseteq Shelters

LEMMA TypeParts == (TypeOK => RowTypes /\ CacheTypes) /\ (RowTypes' /\ CacheTypes' => TypeOK')
  BY DEF TypeOK, RowTypes, CacheTypes

\* Cache steps leave the database and the handlers alone.
LEMMA GetOrLoadTypes ==
  ASSUME TypeOK, NEW r \in Replicas, NEW s \in Shelters, GetOrLoad(r, s)
  PROVE  TypeOK'
<1> USE DEF CacheTypes
<1>0. RowTypes /\ CacheTypes
  BY TypeParts
<1>1. RowTypes'
  BY <1>0 DEF RowTypes, GetOrLoad, Miss, Load, LoadFails, Backfill,
     victimVars, shelterVars, procVars
<1>2. CASE Miss(r, s)
  BY <1>0, <1>1, <1>2, TypeParts DEF Miss, Fly
<1>3. CASE Load(r, s)
  <2>1. Row(s) \in Rows
    BY <1>0, <1>3 DEF Load, Found, Exists, Row, Rows, RowTypes
  <2> QED  BY <1>0, <1>1, <1>3, <2>1, TypeParts DEF Load, Fly
<1>4. CASE LoadFails(r, s)
  BY <1>0, <1>1, <1>4, TypeParts DEF LoadFails, Fly
<1>5. CASE Backfill(r, s)
  <2>1. flight[r][s] \in Rows
    BY <1>0, <1>5 DEF Backfill
  <2>2. cache' \in [Shelters -> Rows \cup {NoRow}] /\ excused' \subseteq Shelters
    BY <1>0, <1>5, <2>1 DEF Backfill
  <2>3. flight' \in [Replicas -> [Shelters -> Rows \cup {NoRow, Loading}]]
    BY <1>0, <1>5 DEF Backfill, Fly
  <2> QED  BY <1>1, <2>2, <2>3, TypeParts
<1> QED  BY <1>2, <1>3, <1>4, <1>5 DEF GetOrLoad

LEMMA ExpireTypes == ASSUME TypeOK, NEW s \in Shelters, Expire(s) PROVE TypeOK'
  BY TypeParts DEF Expire, Drop, RowTypes, CacheTypes, victimVars, shelterVars, procVars

LEMMA RegistrationTypes == ASSUME TypeOK, Registration PROVE TypeOK'
<1> USE DEF victimVars, shelterVars, procVars, cacheVars
<1>1. RowTypes /\ CacheTypes
  BY TypeParts
<1>2. ASSUME NEW v \in Victims, CreateVictim(v) PROVE TypeOK'
  BY <1>1, <1>2, TypeParts DEF CreateVictim, RowTypes, CacheTypes
<1>3. ASSUME NEW s \in Shelters, CreateShelter(s) PROVE TypeOK'
  BY <1>1, <1>3, TypeParts DEF CreateShelter, RowTypes, CacheTypes, OpenOrClosed
<1> QED  BY <1>2, <1>3 DEF Registration

LEMMA HandlerTypes ==
  ASSUME IInv, NEW p \in Procs, Handler(p) PROVE TypeOK'
<1> USE DEF victimVars, shelterVars, procVars, cacheVars
<1>0. RowTypes /\ CacheTypes /\ NoReq \in [victim : Victims \cup {None},
          shelter : Shelters \cup {None}, occupancy : Nat]
  BY TypeParts DEF IInv, NoReq
<1>1. ASSUME NEW v \in Victims, NEW s \in Shelters, LockVictim(p, v, s) PROVE TypeOK'
  BY <1>0, <1>1, TypeParts DEF LockVictim, Goto, NoReq, RowTypes, CacheTypes
<1>2. ASSUME NEW s \in Shelters, NEW st \in OpenOrClosed, UpdateStatus(p, s, st) PROVE TypeOK'
  BY <1>0, <1>2, TypeParts, ShelterAssumption
  DEF UpdateStatus, Goto, NoReq, RowTypes, CacheTypes
<1>3. CASE AdmitTx(p)
  <2>1. req[p].shelter \in Shelters
    BY <1>3 DEF IInv, VictimsOK, Assigning, AdmitTx
  <2>2. occupancy[req[p].shelter] + 1 \in Nat
    BY <1>0, <2>1 DEF RowTypes
  <2>3. req' = [req EXCEPT ![p] = [req[p] EXCEPT !.occupancy = occupancy[req[p].shelter] + 1]]
    BY <1>3 DEF AdmitTx
  <2>4. req' \in [Procs -> [victim : Victims \cup {None}, shelter : Shelters \cup {None},
                            occupancy : Nat]]
    BY <1>0, <2>2, <2>3 DEF RowTypes
  <2> QED  BY <1>0, <1>3, <2>4, TypeParts DEF AdmitTx, Goto, RowTypes, CacheTypes
<1>4. CASE Refuse(p)
  BY <1>0, <1>4, TypeParts DEF Refuse, End, Goto, RowTypes, CacheTypes
<1>5. CASE Commit(p)
  <2>1. req[p].shelter \in Shelters /\ req[p].victim \in Victims /\ req[p].occupancy \in Nat
    BY <1>0, <1>5 DEF IInv, VictimsOK, Assigning, Commit, RowTypes
  <2> QED  BY <1>0, <1>5, <2>1, TypeParts DEF Commit, GetByIDTx, Goto, RowTypes, CacheTypes
<1>6. CASE Invalidate(p)
  <2>1. req[p].shelter \in Shelters
    BY <1>6 DEF IInv, VictimsOK, Invalidate
  <2> QED  BY <1>0, <1>6, <2>1, TypeParts
           DEF Invalidate, Drop, Excuse, End, Goto, RowTypes, CacheTypes
<1>7. CASE Crash(p)
  <2>1. pc[p] = "invalidate" => req[p].shelter \in Shelters
    BY DEF IInv, VictimsOK
  <2> QED  BY <1>0, <1>7, <2>1, TypeParts DEF Crash, Excuse, End, Goto, RowTypes, CacheTypes
<1> QED  BY <1>1, <1>2, <1>3, <1>4, <1>5, <1>6, <1>7 DEF Handler

-----------------------------------------------------------------------------
(* Victims and claims.                                                      *)

\* Steps that change no row and at most take handlers out of a transaction.
Quiet ==
  /\ UNCHANGED <<vStatus, vShelter, sStatus, occupancy>>
  /\ \A p \in Procs : \/ pc'[p] = pc[p] /\ req'[p] = req[p]
                      \/ pc'[p] = "idle"

LEMMA QuietInv ==
  ASSUME IInv, Quiet
  PROVE  VictimsOK' /\ ClaimsOK' /\ WithinCapacity' /\ AbsentEmpty' /\ OccupancyExact'
<1>1. VictimsOK'
  BY DEF IInv, Quiet, VictimsOK, Assigning
<1>2. ClaimsOK'
  BY DEF IInv, Quiet, ClaimsOK
<1>3. WithinCapacity' /\ AbsentEmpty'
  BY DEF IInv, Quiet, WithinCapacity, AbsentEmpty
<1>4. OccupancyExact'
  BY DEF IInv, Quiet, OccupancyExact, Placed
<1> QED  BY <1>1, <1>2, <1>3, <1>4

LEMMA QuietSteps ==
  ASSUME IInv
  PROVE  /\ \A p \in Procs : Refuse(p) \/ Invalidate(p) \/ Crash(p) => Quiet
         /\ \A r \in Replicas, s \in Shelters : GetOrLoad(r, s) => Quiet
         /\ \A s \in Shelters : Expire(s) => Quiet
         /\ UNCHANGED vars => Quiet
<1> USE DEF Quiet, victimVars, shelterVars, procVars, cacheVars
<1>1. RowTypes
  BY TypeParts DEF IInv
<1>2. ASSUME NEW p \in Procs, Refuse(p) \/ Invalidate(p) \/ Crash(p) PROVE Quiet
  <2>1. End(p) /\ UNCHANGED <<vStatus, vShelter, sStatus, occupancy>>
    BY <1>2 DEF Refuse, Invalidate, Crash
  <2> QED  BY <1>1, <2>1 DEF End, Goto, RowTypes
<1>3. ASSUME NEW r \in Replicas, NEW s \in Shelters, GetOrLoad(r, s) PROVE Quiet
  BY <1>3 DEF GetOrLoad, Miss, Load, LoadFails, Backfill
<1>4. ASSUME NEW s \in Shelters, Expire(s) PROVE Quiet
  BY <1>4 DEF Expire
<1>5. UNCHANGED vars => Quiet
  BY DEF vars
<1> QED  BY <1>2, <1>3, <1>4, <1>5

LEMMA RegistrationInv ==
  ASSUME IInv, Registration
  PROVE  VictimsOK' /\ ClaimsOK' /\ WithinCapacity' /\ AbsentEmpty' /\ OccupancyExact'
<1> USE DEF victimVars, shelterVars, procVars, cacheVars
<1>1. RowTypes
  BY TypeParts DEF IInv
<1>2. ASSUME NEW v \in Victims, CreateVictim(v)
      PROVE  VictimsOK' /\ ClaimsOK' /\ WithinCapacity' /\ AbsentEmpty' /\ OccupancyExact'
  <2>1. VictimsOK'
    BY <1>1, <1>2 DEF IInv, VictimsOK, Assigning, CreateVictim, RowTypes
  <2>2. ClaimsOK' /\ WithinCapacity' /\ AbsentEmpty'
    BY <1>2 DEF IInv, ClaimsOK, WithinCapacity, AbsentEmpty, CreateVictim
  <2>3. OccupancyExact'
    BY <1>2 DEF IInv, OccupancyExact, Placed, CreateVictim
  <2> QED  BY <2>1, <2>2, <2>3
<1>3. ASSUME NEW s \in Shelters, CreateShelter(s)
      PROVE  VictimsOK' /\ ClaimsOK' /\ WithinCapacity' /\ AbsentEmpty' /\ OccupancyExact'
  <2>1. occupancy' = occupancy
    BY <1>1, <1>3 DEF IInv, AbsentEmpty, CreateShelter, Exists, RowTypes
  <2>2. VictimsOK' /\ WithinCapacity' /\ AbsentEmpty'
    BY <1>1, <1>3, <2>1
    DEF IInv, VictimsOK, Assigning, WithinCapacity, AbsentEmpty, CreateShelter, RowTypes
  <2>3. ClaimsOK'
    BY <1>1, <1>3, <2>1 DEF IInv, ClaimsOK, CreateShelter, RowTypes
  <2>4. OccupancyExact'
    BY <1>3, <2>1 DEF IInv, OccupancyExact, Placed, CreateShelter
  <2> QED  BY <2>2, <2>3, <2>4
<1> QED  BY <1>2, <1>3 DEF Registration

LEMMA LockVictimInv ==
  ASSUME IInv, NEW p \in Procs, NEW v \in Victims, NEW s \in Shelters, LockVictim(p, v, s)
  PROVE  VictimsOK' /\ ClaimsOK' /\ WithinCapacity' /\ AbsentEmpty' /\ OccupancyExact'
<1> USE DEF victimVars, shelterVars, procVars, cacheVars
<1>1. RowTypes
  BY TypeParts DEF IInv
<1>2. /\ UNCHANGED <<vStatus, vShelter, sStatus, occupancy>>
      /\ pc'[p] = "admit" /\ req'[p].victim = v /\ req'[p].shelter = s
      /\ \A q \in Procs : q # p => pc'[q] = pc[q] /\ req'[q] = req[q]
  BY <1>1 DEF LockVictim, Goto, NoReq, RowTypes
<1>3. vStatus[v] = "registered" /\ \A q \in Procs : Assigning(q) => req[q].victim # v
  BY DEF LockVictim, Unassigned, VictimFree, Assigning
<1>4. VictimsOK'
  BY <1>2, <1>3 DEF IInv, VictimsOK, Assigning
<1>5. ClaimsOK' /\ WithinCapacity' /\ AbsentEmpty'
  BY <1>2 DEF IInv, ClaimsOK, WithinCapacity, AbsentEmpty
<1>6. OccupancyExact'
  BY <1>2 DEF IInv, OccupancyExact, Placed
<1> QED  BY <1>4, <1>5, <1>6

LEMMA UpdateStatusInv ==
  ASSUME IInv, NEW p \in Procs, NEW s \in Shelters, NEW st \in OpenOrClosed,
         UpdateStatus(p, s, st)
  PROVE  VictimsOK' /\ ClaimsOK' /\ WithinCapacity' /\ AbsentEmpty' /\ OccupancyExact'
<1> USE DEF victimVars, shelterVars, procVars, cacheVars
<1>1. RowTypes
  BY TypeParts DEF IInv
<1>2. /\ UNCHANGED <<vStatus, vShelter, occupancy>>
      /\ pc'[p] = "invalidate" /\ req'[p].shelter = s
      /\ \A q \in Procs : q # p => pc'[q] = pc[q] /\ req'[q] = req[q]
  BY <1>1 DEF UpdateStatus, Goto, NoReq, RowTypes
<1>3. /\ \A q \in Procs : pc[q] = "commit" => req[q].shelter # s
      /\ \A t \in Shelters : t # s => sStatus'[t] = sStatus[t]
      /\ sStatus'[s] # "absent"
  BY <1>1 DEF UpdateStatus, RowFree, RowTypes, OpenOrClosed
<1>4. VictimsOK'
  BY <1>2 DEF IInv, VictimsOK, Assigning
<1>5. ClaimsOK'
  BY <1>2, <1>3 DEF IInv, ClaimsOK, VictimsOK, Assigning
<1>6. WithinCapacity' /\ AbsentEmpty'
  BY <1>2, <1>3 DEF IInv, WithinCapacity, AbsentEmpty
<1>7. OccupancyExact'
  BY <1>2 DEF IInv, OccupancyExact, Placed
<1> QED  BY <1>4, <1>5, <1>6, <1>7

LEMMA AdmitInv ==
  ASSUME IInv, NEW p \in Procs, AdmitTx(p)
  PROVE  VictimsOK' /\ ClaimsOK' /\ WithinCapacity' /\ AbsentEmpty' /\ OccupancyExact'
<1> USE DEF victimVars, shelterVars, procVars, cacheVars
<1> DEFINE s == req[p].shelter
<1>1. RowTypes /\ s \in Shelters
  BY TypeParts DEF IInv, VictimsOK, Assigning, AdmitTx
<1>2. /\ UNCHANGED <<vStatus, vShelter, sStatus, occupancy>>
      /\ pc[p] = "admit" /\ pc'[p] = "commit"
      /\ \A q \in Procs : q # p => pc'[q] = pc[q] /\ req'[q] = req[q]
  BY <1>1 DEF AdmitTx, Goto, RowTypes
<1>3. /\ req'[p].victim = req[p].victim /\ req'[p].shelter = s
      /\ req'[p].occupancy = occupancy[s] + 1
  BY <1>1 DEF AdmitTx, RowTypes
<1>4. /\ \A q \in Procs : pc[q] = "commit" => req[q].shelter # s
      /\ sStatus[s] = "open" /\ occupancy[s] < Capacity[s]
  BY DEF AdmitTx, RowFree, CanAdmit
<1>5. occupancy[s] + 1 <= Capacity[s]
  BY <1>1, <1>4, ShelterAssumption DEF RowTypes
<1>6. VictimsOK'
  BY <1>2, <1>3 DEF IInv, VictimsOK, Assigning
<1>7. ClaimsOK'
  BY <1>2, <1>3, <1>4, <1>5 DEF IInv, ClaimsOK
<1>8. WithinCapacity' /\ AbsentEmpty'
  BY <1>2 DEF IInv, WithinCapacity, AbsentEmpty
<1>9. OccupancyExact'
  BY <1>2 DEF IInv, OccupancyExact, Placed
<1> QED  BY <1>6, <1>7, <1>8, <1>9

\* A commit places the handler's victim, in a bed nobody else has claimed.
LEMMA CommitFacts ==
  ASSUME IInv, NEW p \in Procs, Commit(p)
  PROVE  LET v == req[p].victim  s == req[p].shelter IN
         /\ v \in Victims /\ s \in Shelters
         /\ vStatus[v] = "registered" /\ vShelter[v] = None
         /\ vStatus' = [vStatus EXCEPT ![v] = "sheltered"]
         /\ vShelter' = [vShelter EXCEPT ![v] = s]
         /\ occupancy' = [occupancy EXCEPT ![s] = occupancy[s] + 1]
         /\ occupancy[s] + 1 <= Capacity[s]
         /\ sStatus[s] = "open" /\ UNCHANGED <<sStatus, req>>
         /\ pc'[p] = "invalidate"
         /\ \A q \in Procs : q # p => pc'[q] = pc[q]
         /\ RowTypes
<1>1. RowTypes
  BY TypeParts DEF IInv
<1>2. pc[p] = "commit"
  BY DEF Commit
<1>3. /\ req[p].victim \in Victims /\ req[p].shelter \in Shelters
      /\ vStatus[req[p].victim] = "registered"
  BY <1>2 DEF IInv, VictimsOK, Assigning
<1>4. vShelter[req[p].victim] = None
  BY <1>3 DEF IInv, VictimsOK
<1>5. /\ req[p].occupancy = occupancy[req[p].shelter] + 1
      /\ req[p].occupancy <= Capacity[req[p].shelter]
      /\ sStatus[req[p].shelter] = "open"
  BY <1>2 DEF IInv, ClaimsOK
<1> QED  BY <1>1, <1>3, <1>4, <1>5 DEF Commit, Goto, RowTypes

LEMMA CommitInv ==
  ASSUME IInv, NEW p \in Procs, Commit(p)
  PROVE  VictimsOK' /\ ClaimsOK' /\ WithinCapacity' /\ AbsentEmpty' /\ OccupancyExact'
<1>1. PICK v \in Victims, s \in Shelters :
      /\ v = req[p].victim /\ s = req[p].shelter
      /\ vStatus[v] = "registered" /\ vShelter[v] = None
      /\ vStatus' = [vStatus EXCEPT ![v] = "sheltered"]
      /\ vShelter' = [vShelter EXCEPT ![v] = s]
      /\ occupancy' = [occupancy EXCEPT ![s] = occupancy[s] + 1]
      /\ occupancy[s] + 1 <= Capacity[s]
      /\ sStatus[s] = "open" /\ UNCHANGED <<sStatus, req>>
      /\ pc'[p] = "invalidate"
      /\ \A q \in Procs : q # p => pc'[q] = pc[q]
      /\ RowTypes
  BY CommitFacts
<1>2. pc[p] = "commit" /\ s # None
  BY <1>1, ShelterAssumption DEF Commit
<1>3. VictimsOK'
  <2>1. \A w \in Victims : vShelter'[w] # None <=> vStatus'[w] = "sheltered"
    BY <1>1, <1>2 DEF IInv, VictimsOK, RowTypes
  <2>2. \A q \in Procs : Assigning(q)' => q # p /\ Assigning(q)
    BY <1>1 DEF Assigning
  <2>3. \A q \in Procs : Assigning(q) /\ q # p => req[q].victim # v
    BY <1>1, <1>2 DEF IInv, VictimsOK, Assigning
  <2>4. \A q \in Procs : Assigning(q)' =>
          /\ req'[q].victim \in Victims /\ vStatus'[req'[q].victim] = "registered"
          /\ req'[q].shelter \in Shelters
    BY <1>1, <2>2, <2>3 DEF IInv, VictimsOK, RowTypes
  <2>5. \A q, r \in Procs :
          Assigning(q)' /\ Assigning(r)' /\ req'[q].victim = req'[r].victim => q = r
    BY <1>1, <2>2 DEF IInv, VictimsOK
  <2>6. \A q \in Procs : pc'[q] = "invalidate" => req'[q].shelter \in Shelters
    BY <1>1 DEF IInv, VictimsOK
  <2> QED  BY <2>1, <2>4, <2>5, <2>6 DEF VictimsOK
<1>4. ClaimsOK'
  <2>1. \A q \in Procs : pc'[q] = "commit" => q # p /\ pc[q] = "commit"
    BY <1>1
  <2>2. \A q \in Procs : pc[q] = "commit" /\ q # p => req[q].shelter # s
    BY <1>1, <1>2 DEF IInv, ClaimsOK
  <2>3. \A q \in Procs : pc[q] = "commit" => req[q].shelter \in Shelters
    BY DEF IInv, VictimsOK, Assigning
  <2>4. \A q \in Procs : pc[q] = "commit" /\ q # p =>
          occupancy'[req[q].shelter] = occupancy[req[q].shelter]
    BY <1>1, <2>2, <2>3 DEF RowTypes
  <2> QED  BY <1>1, <2>1, <2>4 DEF IInv, ClaimsOK
<1>5. WithinCapacity' /\ AbsentEmpty'
  BY <1>1 DEF IInv, WithinCapacity, AbsentEmpty, RowTypes
<1>6. OccupancyExact'
  <2>1. \A t \in Shelters : IsFiniteSet(Placed(t))
    BY FS_Subset, ShelterAssumption DEF Placed
  <2>2. Placed(s)' = Placed(s) \cup {v} /\ v \notin Placed(s)
    BY <1>1, <1>2 DEF Placed, RowTypes
  <2>3. Cardinality(Placed(s)') = Cardinality(Placed(s)) + 1
    BY <1>1, <2>1, <2>2, FS_AddElement
  <2>4. ASSUME NEW t \in Shelters, t # s PROVE Placed(t)' = Placed(t)
    BY <1>1, <2>4, ShelterAssumption DEF Placed, RowTypes
  <2>5. ASSUME NEW t \in Shelters PROVE occupancy'[t] = Cardinality(Placed(t)')
    <3>1. occupancy[t] = Cardinality(Placed(t))
      BY DEF IInv, OccupancyExact
    <3>2. CASE t = s
      BY <1>1, <2>3, <3>1, <3>2 DEF RowTypes
    <3>3. CASE t # s
      BY <1>1, <2>4, <3>1, <3>3 DEF RowTypes
    <3> QED  BY <3>2, <3>3
  <2> QED  BY <2>5 DEF OccupancyExact
<1> QED  BY <1>3, <1>4, <1>5, <1>6

-----------------------------------------------------------------------------
(* The theorems.                                                            *)

LEMMA IInvInit == ASSUME Init PROVE IInv
<1>1. TypeOK
  BY TypeInit
<1>2. VictimsOK /\ ClaimsOK
  BY DEF Init, VictimsOK, ClaimsOK, Assigning
<1>3. WithinCapacity /\ AbsentEmpty
  BY ShelterAssumption DEF Init, WithinCapacity, AbsentEmpty
<1>4. OccupancyExact
  <2>1. ASSUME NEW s \in Shelters PROVE Placed(s) = {}
    BY ShelterAssumption DEF Init, Placed
  <2> QED  BY <2>1, FS_EmptySet DEF Init, OccupancyExact
<1> QED  BY <1>1, <1>2, <1>3, <1>4 DEF IInv

LEMMA IInvNext == ASSUME IInv, [Next]_vars PROVE IInv'
<1> USE DEF IInv
<1>1. CASE Registration
  BY <1>1, RegistrationTypes, RegistrationInv
<1>2. ASSUME NEW p \in Procs, Handler(p) PROVE IInv'
  <2>1. TypeOK'
    BY <1>2, HandlerTypes
  <2>2. ASSUME NEW v \in Victims, NEW s \in Shelters, LockVictim(p, v, s) PROVE IInv'
    BY <2>1, <2>2, LockVictimInv
  <2>3. ASSUME NEW s \in Shelters, NEW st \in OpenOrClosed, UpdateStatus(p, s, st)
        PROVE  IInv'
    BY <2>1, <2>3, UpdateStatusInv
  <2>4. CASE AdmitTx(p)
    BY <2>1, <2>4, AdmitInv
  <2>5. CASE Commit(p)
    BY <2>1, <2>5, CommitInv
  <2>6. CASE Refuse(p) \/ Invalidate(p) \/ Crash(p)
    BY <2>1, <2>6, QuietSteps, QuietInv
  <2> QED  BY <1>2, <2>2, <2>3, <2>4, <2>5, <2>6 DEF Handler
<1>3. ASSUME NEW r \in Replicas, NEW s \in Shelters, GetOrLoad(r, s) PROVE IInv'
  BY <1>3, GetOrLoadTypes, QuietSteps, QuietInv
<1>4. ASSUME NEW s \in Shelters, Expire(s) PROVE IInv'
  BY <1>4, ExpireTypes, QuietSteps, QuietInv
<1>5. CASE UNCHANGED vars
  <2>1. TypeOK'
    BY <1>5 DEF TypeOK, vars, victimVars, shelterVars, procVars, cacheVars
  <2> QED  BY <1>5, <2>1, QuietSteps, QuietInv
<1> QED  BY <1>1, <1>2, <1>3, <1>4, <1>5 DEF Next

\* The invariant holds in every reachable state.
THEOREM Invariance == Spec => []IInv
<1>1. Init => IInv
  BY IInvInit
<1>2. IInv /\ [Next]_vars => IInv'
  BY IInvNext
<1> QED  BY <1>1, <1>2, PTL DEF Spec

\* Shelter intake is well typed (AdmitTx, Assign, GetOrLoad), for any instance.
THEOREM IntakeTypeCorrect == Spec => []TypeOK
<1>1. IInv => TypeOK
  BY DEF IInv
<1> QED  BY <1>1, Invariance, PTL

\* The counter AdmitTx guards equals the number of victims Assign has placed.
THEOREM OccupancyIsExact == Spec => []OccupancyExact
<1>1. IInv => OccupancyExact
  BY DEF IInv
<1> QED  BY <1>1, Invariance, PTL

\* No shelter is ever overfull, however many assignments run at once.
THEOREM NeverOverfull == Spec => []NoOverflow
<1>1. IInv => NoOverflow
  BY DEF IInv, NoOverflow, OccupancyExact, WithinCapacity
<1> QED  BY <1>1, Invariance, PTL

-----------------------------------------------------------------------------
(* Only a commit moves people.                                              *)

Beds == [v \in Victims |-> IF vStatus[v] = "sheltered" THEN 1 ELSE 0]

LEMMA OnlyCommits ==
  ASSUME IInv, [Next]_vars
  PROVE  \/ \E p \in Procs : Commit(p)
         \/ UNCHANGED <<occupancy, vShelter, Beds>>
<1> USE DEF victimVars, shelterVars, procVars, cacheVars
<1>1. RowTypes
  BY TypeParts DEF IInv
<1>2. ASSUME NEW v \in Victims, CreateVictim(v) PROVE UNCHANGED <<occupancy, vShelter, Beds>>
  <2>1. \A w \in Victims : vStatus'[w] = "sheltered" <=> vStatus[w] = "sheltered"
    BY <1>1, <1>2 DEF CreateVictim, RowTypes
  <2> QED  BY <1>2, <2>1 DEF CreateVictim, Beds
<1>3. ASSUME NEW s \in Shelters, CreateShelter(s) PROVE UNCHANGED <<occupancy, vShelter, Beds>>
  BY <1>1, <1>3 DEF IInv, AbsentEmpty, CreateShelter, Exists, RowTypes, Beds
<1>4. ASSUME NEW p \in Procs, Handler(p), ~Commit(p)
      PROVE  UNCHANGED <<occupancy, vShelter, Beds>>
  BY <1>4 DEF Handler, LockVictim, UpdateStatus, AdmitTx, Refuse, Invalidate, Crash, Beds
<1>5. ASSUME Quiet PROVE UNCHANGED <<occupancy, vShelter, Beds>>
  BY <1>5 DEF Quiet, Beds
<1> QED  BY <1>2, <1>3, <1>4, <1>5, QuietSteps DEF Next, Registration

\* Nobody is admitted to a shelter that is closed when Assign commits.
THEOREM ClosedStaysClosed == Spec => ClosedAdmitsNobody
<1> DEFINE A == \A s \in Shelters : occupancy'[s] > occupancy[s] => sStatus[s] = "open"
<1>1. ASSUME IInv, [Next]_vars PROVE [A]_vars
  <2>1. RowTypes
    BY <1>1, TypeParts DEF IInv
  <2>2. CASE UNCHANGED occupancy
    BY <2>1, <2>2 DEF RowTypes
  <2>3. ASSUME NEW p \in Procs, Commit(p) PROVE A
    BY <1>1, <2>1, <2>3, CommitFacts DEF RowTypes
  <2> QED  BY <1>1, <2>2, <2>3, OnlyCommits
<1>2. IInv /\ [Next]_vars => [A]_vars
  BY <1>1
<1> QED  BY <1>2, Invariance, PTL DEF Spec, ClosedAdmitsNobody

\* Shelter intake implements the capacity ledger: every step of its transactions
\* is invisible to the ledger, except a commit, which takes one bed for one victim.
THEOREM IntakeImplementsLedger == Spec => ImplementsLedger
<1>1. Init => Ledger!Init
  BY DEF Init, Ledger!Init
<1>2. ASSUME IInv, [Next]_vars PROVE [Ledger!Next]_(Ledger!vars)
  <2>1. CASE UNCHANGED <<occupancy, vShelter, Beds>>
    BY <2>1 DEF Ledger!vars, Beds
  <2>2. ASSUME NEW p \in Procs, Commit(p) PROVE Ledger!Next
    <3>1. PICK v \in Victims, s \in Shelters :
            /\ v = req[p].victim /\ s = req[p].shelter
            /\ vStatus[v] = "registered"
            /\ vStatus' = [vStatus EXCEPT ![v] = "sheltered"]
            /\ vShelter' = [vShelter EXCEPT ![v] = s]
            /\ occupancy' = [occupancy EXCEPT ![s] = occupancy[s] + 1]
            /\ occupancy[s] + 1 <= Capacity[s]
            /\ RowTypes
      BY <1>2, <2>2, CommitFacts
    <3>2. Beds[v] = 0 /\ Beds' = [Beds EXCEPT ![v] = 1]
      <4>1. \A w \in Victims :
              vStatus'[w] = IF w = v THEN "sheltered" ELSE vStatus[w]
        BY <3>1 DEF RowTypes
      <4> QED  BY <3>1, <4>1 DEF Beds
    <3>3. 1 \in 1 .. Capacity[s]
      <4>1. Capacity[s] \in Nat /\ Capacity[s] # 0
        BY ShelterAssumption
      <4> QED  BY <4>1
    <3>4. Ledger!Take(v, s, 1)
      BY <3>1, <3>2, Zenon DEF Ledger!Take, Beds
    <3> QED  BY <3>3, <3>4 DEF Ledger!Next
  <2> QED  BY <1>2, <2>1, <2>2, OnlyCommits
<1>3. IInv /\ [Next]_vars => [Ledger!Next]_(Ledger!vars)
  BY <1>2
<1> QED  BY <1>1, <1>3, Invariance, PTL DEF Spec, ImplementsLedger, Ledger!Spec
-----------------------------------------------------------------------------
(* The cache.                                                               *)

\* What is cached, or about to be, was read from a registered shelter.
CachedExist ==
  \A s \in Shelters :
    /\ cache[s] # NoRow => Exists(s)
    /\ \A r \in Replicas : flight[r][s] \notin {NoRow, Loading} => Exists(s)

\* s's row was changed by a handler that has yet to delete the entry.
Pending(s) == \E p \in Procs : pc[p] = "invalidate" /\ req[p].shelter = s
Explained(s) == cache[s] \notin {NoRow, Row(s)} => s \in excused \/ Pending(s)

CacheInv == CachedExist /\ StaleExplained

\* Shelters never disappear, so a step that leaves the cache and the flights alone,
\* or empties some of them, keeps CachedExist.
LEMMA CachedExistKept ==
  ASSUME CachedExist,
         \A s \in Shelters : Exists(s) => Exists(s)',
         \A s \in Shelters : cache'[s] \in {cache[s], NoRow},
         \A r \in Replicas, s \in Shelters : flight'[r][s] \in {flight[r][s], NoRow, Loading}
  PROVE  CachedExist'
  BY DEF CachedExist, Loading, NoRow

\* An entry stays explained while nothing about it changes but the handlers, none
\* of which stops owing its deletion.
LEMMA ExplainedKept ==
  ASSUME NEW s \in Shelters, Explained(s), UNCHANGED <<cache[s], Row(s)>>,
         s \in excused => s \in excused',
         Pending(s) => Pending(s)'
  PROVE  Explained(s)'
<1> USE DEF Explained
<1>1. NoRow' = NoRow
  BY DEF NoRow
<1> QED  BY <1>1

LEMMA StaleFold == StaleExplained <=> \A s \in Shelters : Explained(s)
  BY DEF StaleExplained, Explained, Pending
LEMMA StaleFoldNext == StaleExplained' <=> \A s \in Shelters : Explained(s)'
  BY DEF StaleExplained, Explained, Pending

\* Handlers' steps that change neither rows nor the cache.
LEMMA StatementCache ==
  ASSUME IInv, CacheInv, NEW p \in Procs,
         \/ \E v \in Victims, s \in Shelters : LockVictim(p, v, s)
         \/ AdmitTx(p)
         \/ Refuse(p)
  PROVE  CacheInv'
<1> USE DEF victimVars, shelterVars, procVars, cacheVars
<1>1. RowTypes
  BY TypeParts DEF IInv
<1>2. /\ UNCHANGED <<sStatus, occupancy, cache, flight, excused>>
      /\ pc[p] # "invalidate"
      /\ \A q \in Procs : q # p => pc'[q] = pc[q] /\ req'[q] = req[q]
  BY <1>1 DEF LockVictim, AdmitTx, Refuse, End, Goto, RowTypes
<1>3. CachedExist'
  BY <1>2, CachedExistKept DEF CacheInv, Exists
<1>4. ASSUME NEW s \in Shelters PROVE Explained(s)'
  <2>1. Pending(s) => Pending(s)'
    BY <1>2 DEF Pending
  <2> QED  BY <1>2, <2>1, ExplainedKept, StaleFold DEF CacheInv, Row
<1> QED  BY <1>3, <1>4, StaleFoldNext DEF CacheInv

\* A commit and a status update owe the deletion of the entry they outdate.
LEMMA ChangeCache ==
  ASSUME IInv, CacheInv, NEW p \in Procs,
         \/ Commit(p)
         \/ \E s \in Shelters, st \in OpenOrClosed : UpdateStatus(p, s, st)
  PROVE  CacheInv'
<1> USE DEF victimVars, shelterVars, procVars, cacheVars
<1>1. RowTypes
  BY TypeParts DEF IInv
<1>2. PICK s \in Shelters :
        /\ \A t \in Shelters : t # s => Row(t)' = Row(t)
        /\ \A t \in Shelters : Exists(t) => Exists(t)'
        /\ UNCHANGED <<cache, flight, excused>>
        /\ pc[p] # "invalidate" /\ pc'[p] = "invalidate" /\ req'[p].shelter = s
        /\ \A q \in Procs : q # p => pc'[q] = pc[q] /\ req'[q] = req[q]
  <2>1. CASE Commit(p)
    <3> DEFINE s == req[p].shelter
    <3>1. s \in Shelters /\ req' = req
      BY <2>1, CommitFacts
    <3>2. \A t \in Shelters : t # s => Row(t)' = Row(t)
      BY <1>1, <2>1 DEF Commit, Row, RowTypes
    <3>3. /\ \A t \in Shelters : Exists(t) => Exists(t)'
          /\ UNCHANGED <<cache, flight, excused>>
          /\ pc[p] # "invalidate" /\ pc'[p] = "invalidate"
          /\ \A q \in Procs : q # p => pc'[q] = pc[q]
      BY <1>1, <2>1 DEF Commit, Exists, Goto, RowTypes
    <3> QED  BY <3>1, <3>2, <3>3
  <2>2. ASSUME NEW s \in Shelters, NEW st \in OpenOrClosed, UpdateStatus(p, s, st)
        PROVE  /\ \A t \in Shelters : t # s => Row(t)' = Row(t)
               /\ \A t \in Shelters : Exists(t) => Exists(t)'
               /\ UNCHANGED <<cache, flight, excused>>
               /\ pc[p] # "invalidate" /\ pc'[p] = "invalidate" /\ req'[p].shelter = s
               /\ \A q \in Procs : q # p => pc'[q] = pc[q] /\ req'[q] = req[q]
    <3>1. \A t \in Shelters : t # s => Row(t)' = Row(t)
      BY <1>1, <2>2 DEF UpdateStatus, Row, RowTypes
    <3>2. \A t \in Shelters : Exists(t) => Exists(t)'
      BY <1>1, <2>2 DEF UpdateStatus, Exists, OpenOrClosed, RowTypes
    <3> QED  BY <1>1, <2>2, <3>1, <3>2 DEF UpdateStatus, Goto, NoReq, RowTypes
  <2> QED  BY <2>1, <2>2
<1>3. CachedExist'
  BY <1>2, CachedExistKept DEF CacheInv
<1>4. Pending(s)'
  BY <1>2 DEF Pending
<1>5. ASSUME NEW t \in Shelters, t # s PROVE Explained(t)'
  <2>1. Pending(t) => Pending(t)'
    BY <1>2 DEF Pending
  <2> QED  BY <1>2, <1>5, <2>1, ExplainedKept, StaleFold DEF CacheInv
<1>6. Explained(s)'
  BY <1>4 DEF Explained
<1> QED  BY <1>3, <1>5, <1>6, StaleFoldNext DEF CacheInv

\* The deletion is made, or lost; a crash that owes one loses it.
LEMMA DeleteCache ==
  ASSUME IInv, CacheInv, NEW p \in Procs, Invalidate(p) \/ Crash(p)
  PROVE  CacheInv'
<1> USE DEF victimVars, shelterVars, procVars, cacheVars
<1> DEFINE s == req[p].shelter
<1>1. RowTypes /\ CacheTypes
  BY TypeParts DEF IInv
<1>2. /\ UNCHANGED <<sStatus, occupancy, flight>>
      /\ \A q \in Procs : q # p => pc'[q] = pc[q] /\ req'[q] = req[q]
  BY <1>1 DEF Invalidate, Crash, End, Goto, RowTypes
<1>3. \/ Drop(s)
      \/ Excuse(s)
      \/ pc[p] # "invalidate" /\ UNCHANGED <<cache, excused>>
  BY DEF Invalidate, Crash
<1>4. \A t \in Shelters : cache'[t] \in {cache[t], NoRow}
  BY <1>1, <1>3 DEF Drop, Excuse, CacheTypes
<1>5. CachedExist'
  BY <1>2, <1>4, CachedExistKept DEF CacheInv, Exists
<1>6. ASSUME NEW t \in Shelters PROVE Explained(t)'
  <2>1. Row(t)' = Row(t)
    BY <1>2 DEF Row
  <2>2. t # s \/ pc[p] # "invalidate" => (Pending(t) => Pending(t)')
    BY <1>2 DEF Pending
  <2>3. CASE t # s \/ pc[p] # "invalidate"
    <3>1. CASE UNCHANGED cache[t] /\ (t \in excused => t \in excused')
      BY <2>1, <2>2, <2>3, <3>1, ExplainedKept, StaleFold DEF CacheInv
    <3>2. CASE cache'[t] = NoRow
      BY <3>2 DEF Explained, NoRow
    <3> QED  BY <1>1, <1>3, <2>3, <3>1, <3>2 DEF Drop, Excuse, CacheTypes
  <2>4. CASE t = s /\ pc[p] = "invalidate"
    BY <1>1, <1>3, <2>4 DEF Drop, Excuse, Explained, CacheTypes, NoRow
  <2> QED  BY <2>3, <2>4
<1> QED  BY <1>5, <1>6, StaleFoldNext DEF CacheInv

\* A registration cannot outdate an entry: there is none.
LEMMA RegistrationCache ==
  ASSUME IInv, CacheInv, Registration PROVE CacheInv'
<1> USE DEF victimVars, shelterVars, procVars, cacheVars
<1>1. RowTypes
  BY TypeParts DEF IInv
<1>2. /\ UNCHANGED <<cache, flight, excused, pc, req>>
      /\ \A s \in Shelters : Exists(s) => Row(s)' = Row(s) /\ Exists(s)'
  BY <1>1 DEF Registration, CreateVictim, CreateShelter, Exists, Row, RowTypes
<1>3. CachedExist'
  BY <1>2, CachedExistKept DEF CacheInv
<1>4. ASSUME NEW s \in Shelters PROVE Explained(s)'
  <2>1. CASE Exists(s)
    BY <1>2, <2>1, ExplainedKept, StaleFold DEF CacheInv, Pending
  <2>2. CASE ~Exists(s)
    BY <1>2, <2>2 DEF CacheInv, CachedExist, Explained, NoRow
  <2> QED  BY <2>1, <2>2
<1> QED  BY <1>3, <1>4, StaleFoldNext DEF CacheInv

\* A flight writes back what it read: either the row still, or an entry excused as
\* a late backfill.
LEMMA ReadCache ==
  ASSUME IInv, CacheInv, NEW s \in Shelters,
         Expire(s) \/ \E r \in Replicas : GetOrLoad(r, s)
  PROVE  CacheInv'
<1> USE DEF victimVars, shelterVars, procVars, cacheVars
<1>1. CacheTypes
  BY TypeParts DEF IInv
<1>2. UNCHANGED <<sStatus, occupancy, pc, req>>
  BY DEF Expire, GetOrLoad, Miss, Load, LoadFails, Backfill
<1>3. \A t \in Shelters : Row(t)' = Row(t) /\ (Exists(t) => Exists(t)')
                        /\ (Pending(t) => Pending(t)')
  BY <1>2 DEF Row, Exists, Pending
<1>4. /\ \A t \in Shelters : t # s => cache'[t] = cache[t]
      /\ \A t \in Shelters : t # s /\ t \in excused => t \in excused'
      /\ \A r \in Replicas, t \in Shelters : t # s => flight'[r][t] = flight[r][t]
  BY <1>1 DEF Expire, Drop, GetOrLoad, Miss, Load, LoadFails, Backfill, Fly, CacheTypes
<1>5. ASSUME NEW t \in Shelters, t # s PROVE Explained(t)'
  BY <1>3, <1>4, <1>5, ExplainedKept, StaleFold DEF CacheInv
<1>6. Explained(s) /\ CachedExist
  BY StaleFold DEF CacheInv
<1>7. CASE Expire(s)
  <2>1. Explained(s)'
    BY <1>1, <1>7 DEF Expire, Drop, Explained, CacheTypes, NoRow
  <2>2. \A t \in Shelters : cache'[t] \in {cache[t], NoRow}
    BY <1>1, <1>7 DEF Expire, Drop, CacheTypes
  <2>3. CachedExist'
    BY <1>3, <1>6, <1>7, <2>2, CachedExistKept DEF Expire
  <2> QED  BY <1>5, <2>1, <2>3, StaleFoldNext DEF CacheInv
<1>8. ASSUME NEW r \in Replicas, Miss(r, s) \/ LoadFails(r, s) PROVE CacheInv'
  <2>1. Explained(s)'
    BY <1>3, <1>6, <1>8, ExplainedKept DEF Miss, LoadFails
  <2>2. \A q \in Replicas, t \in Shelters :
          flight'[q][t] \in {flight[q][t], NoRow, Loading}
    BY <1>1, <1>8 DEF Miss, LoadFails, Fly, CacheTypes
  <2>3. CachedExist'
    BY <1>3, <1>6, <1>8, <2>2, CachedExistKept DEF Miss, LoadFails
  <2> QED  BY <1>5, <2>1, <2>3, StaleFoldNext DEF CacheInv
<1>9. ASSUME NEW r \in Replicas, Load(r, s) PROVE CacheInv'
  <2>1. Explained(s)'
    BY <1>3, <1>6, <1>9, ExplainedKept DEF Load
  <2>2. Exists(s) /\ Exists(s)' /\ cache' = cache
    BY <1>3, <1>9 DEF Load, Found
  <2>3. \A q \in Replicas, t \in Shelters :
          (flight'[q][t] = flight[q][t]) \/ t = s
    BY <1>4
  <2>4. CachedExist'
    BY <1>3, <1>6, <2>2, <2>3 DEF CachedExist, NoRow, Loading
  <2> QED  BY <1>5, <2>1, <2>4, StaleFoldNext DEF CacheInv
<1>10. ASSUME NEW r \in Replicas, Backfill(r, s) PROVE CacheInv'
  <2>1. /\ Exists(s) /\ Exists(s)'
        /\ cache'[s] = flight[r][s]
        /\ flight[r][s] = Row(s) \/ s \in excused'
    BY <1>1, <1>3, <1>6, <1>10 DEF Backfill, CachedExist, CacheTypes
  <2>2. Explained(s)'
    BY <1>3, <2>1 DEF Explained, NoRow
  <2>3. \A q \in Replicas, t \in Shelters : flight'[q][t] \in {flight[q][t], NoRow}
    BY <1>1, <1>10 DEF Backfill, Fly, CacheTypes
  <2>4. CachedExist'
    BY <1>3, <1>4, <1>6, <2>1, <2>3 DEF CachedExist, NoRow, Loading
  <2> QED  BY <1>5, <2>2, <2>4, StaleFoldNext DEF CacheInv
<1> QED  BY <1>7, <1>8, <1>9, <1>10 DEF GetOrLoad

LEMMA CacheInvNext == ASSUME IInv, CacheInv, [Next]_vars PROVE CacheInv'
<1>1. ASSUME NEW p \in Procs, Handler(p) PROVE CacheInv'
  BY <1>1, StatementCache, ChangeCache, DeleteCache DEF Handler
<1>2. CASE UNCHANGED vars
  <2>1. CachedExist'
    BY <1>2 DEF CacheInv, CachedExist, Exists, Loading, NoRow, vars, shelterVars, cacheVars
  <2>2. StaleExplained'
    BY <1>2 DEF CacheInv, StaleExplained, Row, NoRow, vars, shelterVars, procVars, cacheVars
  <2> QED  BY <2>1, <2>2 DEF CacheInv
<1> QED  BY <1>1, <1>2, RegistrationCache, ReadCache DEF Next

\* A cache entry that differs from its row has a reason: a handler that owes the
\* deletion, a deletion lost, or a late backfill (cache.go, GetOrLoad), for any
\* number of handlers and replicas.
THEOREM StalenessExplained == Spec => []StaleExplained
<1>1. Init => CacheInv
  BY DEF Init, CacheInv, CachedExist, StaleExplained
<1>2. IInv /\ CacheInv /\ [Next]_vars => CacheInv'
  BY CacheInvNext
<1>3. CacheInv => StaleExplained
  BY DEF CacheInv
<1> QED  BY <1>1, <1>2, <1>3, Invariance, PTL DEF Spec

\* The cached entry of s differs from the row, and the replicas whose flight has loaded
\* what the row no longer is.
Outdated(s) == cache[s] \notin {NoRow, Row(s)}
OldLoads(s) == {r \in Replicas : flight[r][s] \notin {NoRow, Loading, Row(s)}}

\* While a row stays as it is no load becomes old, and its entry becomes outdated only
\* by a load that was old already and is used up by that.
OldLoadsRunOut ==
  [][\A s \in Shelters : Row(s)' = Row(s) =>
       /\ OldLoads(s)' \subseteq OldLoads(s)
       /\ Outdated(s)' => \/ Outdated(s) /\ cache'[s] = cache[s]
                          \/ OldLoads(s)' # OldLoads(s)]_vars

\* The staleness GetOrLoad allows (cache.go) is bounded: after the last write of a
\* shelter each load in flight can outdate its entry once, and the TTL ends each time.
THEOREM StalenessRunsOut == Spec => OldLoadsRunOut
<1> DEFINE RunsOut(s) ==
      /\ OldLoads(s)' \subseteq OldLoads(s)
      /\ Outdated(s)' => \/ Outdated(s) /\ cache'[s] = cache[s]
                         \/ OldLoads(s)' # OldLoads(s)
<1>1. ASSUME IInv, Next, NEW s \in Shelters, Row(s)' = Row(s) PROVE RunsOut(s)
  <2> USE DEF victimVars, shelterVars, procVars, cacheVars
  <2>1. CacheTypes
    BY <1>1, TypeParts DEF IInv
  <2>2. ASSUME \A r \in Replicas : flight'[r][s] \in {flight[r][s], NoRow, Loading, Row(s)},
               cache'[s] \in {cache[s], NoRow}
        PROVE  RunsOut(s)
    <3>1. OldLoads(s)' \subseteq OldLoads(s)
      BY <1>1, <2>2 DEF OldLoads, NoRow, Loading
    <3>2. Outdated(s)' => Outdated(s) /\ cache'[s] = cache[s]
      BY <1>1, <2>2 DEF Outdated, NoRow
    <3> QED  BY <3>1, <3>2
  <2>3. CASE UNCHANGED <<cache, flight>>
    BY <2>2, <2>3
  <2>4. ASSUME NEW p \in Procs, Handler(p) PROVE RunsOut(s)
    <3>1. flight' = flight /\ cache'[s] \in {cache[s], NoRow}
      BY <2>1, <2>4 DEF Handler, LockVictim, UpdateStatus, AdmitTx, Refuse, Commit, Invalidate,
                        Crash, Drop, Excuse, CacheTypes
    <3> QED  BY <2>2, <3>1
  <2>5. ASSUME NEW t \in Shelters, Expire(t) PROVE RunsOut(s)
    BY <2>1, <2>2, <2>5 DEF Expire, Drop, CacheTypes
  <2>6. ASSUME NEW r \in Replicas, NEW t \in Shelters,
               Miss(r, t) \/ Load(r, t) \/ LoadFails(r, t)
        PROVE  RunsOut(s)
    <3>1. /\ cache' = cache
          /\ \A q \in Replicas : flight'[q][s] \in {flight[q][s], NoRow, Loading, Row(s)}
      BY <2>1, <2>6 DEF Miss, Load, LoadFails, Fly, CacheTypes
    <3> QED  BY <2>2, <3>1
  <2>7. ASSUME NEW r \in Replicas, NEW t \in Shelters, Backfill(r, t) PROVE RunsOut(s)
    <3>1. \A q \in Replicas : flight'[q][s] \in {flight[q][s], NoRow, Loading, Row(s)}
      BY <2>1, <2>7 DEF Backfill, Fly, CacheTypes
    <3>2. CASE t # s
      BY <2>1, <2>2, <2>7, <3>1, <3>2 DEF Backfill, CacheTypes
    <3>3. CASE t = s
      <4>1. /\ flight[r][s] \notin {NoRow, Loading} /\ flight'[r][s] = NoRow
            /\ cache'[s] = flight[r][s]
        BY <2>1, <2>7, <3>3 DEF Backfill, Fly, CacheTypes
      <4>2. OldLoads(s)' \subseteq OldLoads(s)
        BY <1>1, <3>1 DEF OldLoads, NoRow, Loading
      <4>3. Outdated(s)' => r \in OldLoads(s) /\ r \notin OldLoads(s)'
        BY <1>1, <4>1 DEF Outdated, OldLoads, NoRow, Loading
      <4> QED  BY <4>2, <4>3
    <3> QED  BY <3>2, <3>3
  <2>8. Registration => UNCHANGED <<cache, flight>>
    BY DEF Registration, CreateVictim, CreateShelter
  <2> QED  BY <1>1, <2>3, <2>4, <2>5, <2>6, <2>7, <2>8 DEF Next, GetOrLoad
<1>2. IInv /\ [Next]_vars => [\A s \in Shelters : Row(s)' = Row(s) => RunsOut(s)]_vars
  BY <1>1
<1> QED  BY <1>2, Invariance, PTL DEF Spec, OldLoadsRunOut
-----------------------------------------------------------------------------
(* The events.                                                              *)

Events(s) == {e \in outbox : e.shelter = s}

\* AnnouncedExactly counts with Cardinality, which says nothing of an infinite set.
EventsInv == AnnouncedExactly /\ \A s \in Shelters : IsFiniteSet(Events(s))

LEMMA OnlyCommitsAnnounce ==
  ASSUME [Next]_vars
  PROVE  \/ \E p \in Procs : Commit(p)
         \/ UNCHANGED outbox
<1> USE DEF victimVars, shelterVars, procVars, cacheVars
<1>1. Registration => UNCHANGED outbox
  BY DEF Registration, CreateVictim, CreateShelter
<1>2. \A p \in Procs : Handler(p) => Commit(p) \/ UNCHANGED outbox
  BY DEF Handler, LockVictim, UpdateStatus, AdmitTx, Refuse, Invalidate, Crash
<1>3. \A r \in Replicas, s \in Shelters : GetOrLoad(r, s) => UNCHANGED outbox
  BY DEF GetOrLoad, Miss, Load, LoadFails, Backfill
<1>4. \A s \in Shelters : Expire(s) => UNCHANGED outbox
  BY DEF Expire
<1> QED  BY <1>1, <1>2, <1>3, <1>4 DEF Next, vars

LEMMA OneMoreImage ==
  ASSUME NEW S, NEW x
  PROVE  /\ {e.victim : e \in S \cup {x}} = {e.victim : e \in S} \cup {x.victim}
         /\ {e.occupancy : e \in S \cup {x}} = {e.occupancy : e \in S} \cup {x.occupancy}
<1>1. ASSUME NEW y
      PROVE  y \in {e.victim : e \in S \cup {x}} <=>
             y \in {e.victim : e \in S} \cup {x.victim}
  OBVIOUS
<1>2. ASSUME NEW y
      PROVE  y \in {e.occupancy : e \in S \cup {x}} <=>
             y \in {e.occupancy : e \in S} \cup {x.occupancy}
  OBVIOUS
<1>3. {e.victim : e \in S \cup {x}} = {e.victim : e \in S} \cup {x.victim}
  BY <1>1, Zenon
<1>4. {e.occupancy : e \in S \cup {x}} = {e.occupancy : e \in S} \cup {x.occupancy}
  BY <1>2, Zenon
<1> QED  BY <1>3, <1>4

\* A commit adds one event, and its number is the next one.
LEMMA CommitEvents ==
  ASSUME IInv, EventsInv, NEW p \in Procs, Commit(p)
  PROVE  EventsInv'
<1>1. PICK v \in Victims, s \in Shelters :
        /\ v = req[p].victim /\ s = req[p].shelter
        /\ vShelter[v] = None
        /\ vShelter' = [vShelter EXCEPT ![v] = s]
        /\ occupancy' = [occupancy EXCEPT ![s] = occupancy[s] + 1]
        /\ RowTypes
  BY CommitFacts
<1> DEFINE n == occupancy[s] + 1
           new == [victim |-> v, shelter |-> s, occupancy |-> n]
<1>2. s # None /\ occupancy[s] \in Nat
  BY <1>1, ShelterAssumption DEF RowTypes
<1>3. outbox' = outbox \cup {new}
  <2>1. pc[p] = "commit"
    BY DEF Commit
  <2>2. req[p].occupancy = n
    BY <1>1, <2>1 DEF IInv, ClaimsOK
  <2> QED  BY <1>1, <2>2 DEF Commit, GetByIDTx
<1>4. /\ {e.victim : e \in Events(s)} = Placed(s)
      /\ {e.occupancy : e \in Events(s)} = 1 .. occupancy[s]
      /\ Cardinality(Events(s)) = occupancy[s]
      /\ IsFiniteSet(Events(s))
  BY DEF EventsInv, AnnouncedExactly, Events
<1>5. Events(s)' = Events(s) \cup {new}
  BY <1>3 DEF Events
<1>6. new \notin Events(s)
  <2>1. \A e \in Events(s) : e.occupancy <= occupancy[s]
    BY <1>2, <1>4
  <2> QED  BY <1>2, <2>1
<1>7. Placed(s)' = Placed(s) \cup {v}
  BY <1>1, <1>2 DEF Placed, RowTypes
<1>8. {e.victim : e \in Events(s)'} = Placed(s)'
  <2>1. {e.victim : e \in Events(s) \cup {new}} = {e.victim : e \in Events(s)} \cup {v}
    BY OneMoreImage
  <2> QED  BY <1>4, <1>5, <1>7, <2>1
<1>9. {e.occupancy : e \in Events(s)'} = 1 .. n
  <2>1. {e.occupancy : e \in Events(s) \cup {new}} = {e.occupancy : e \in Events(s)} \cup {n}
    BY OneMoreImage
  <2>2. 1 .. n = (1 .. occupancy[s]) \cup {n}
    BY <1>2
  <2> QED  BY <1>4, <1>5, <2>1, <2>2
<1>10. Cardinality(Events(s)') = n /\ IsFiniteSet(Events(s)')
  BY <1>4, <1>5, <1>6, FS_AddElement
<1>11. occupancy'[s] = n
  BY <1>1 DEF RowTypes
<1>12. ASSUME NEW t \in Shelters, t # s
       PROVE  Events(t)' = Events(t) /\ Placed(t)' = Placed(t) /\ occupancy'[t] = occupancy[t]
  BY <1>1, <1>3, <1>12, ShelterAssumption DEF Events, Placed, RowTypes
<1> DEFINE Right(t) == /\ {e.victim : e \in Events(t)} = Placed(t)
                       /\ {e.occupancy : e \in Events(t)} = 1 .. occupancy[t]
                       /\ Cardinality(Events(t)) = occupancy[t]
                       /\ IsFiniteSet(Events(t))
<1>13. Right(s)'
  BY <1>8, <1>9, <1>10, <1>11
<1>14. \A t \in Shelters : Right(t)
  BY DEF EventsInv, AnnouncedExactly, Events
<1>15. ASSUME NEW t \in Shelters, t # s PROVE Right(t)'
  BY <1>12, <1>14, <1>15
<1>16. \A t \in Shelters : Right(t)'
  BY <1>13, <1>15
<1> HIDE DEF Right
<1> QED  BY <1>16 DEF Right, EventsInv, AnnouncedExactly, Events

\* The events of a shelter are its admissions, one each, numbered without a gap
\* (Assign reads the shelter back in its transaction), in every reachable state.
THEOREM AnnouncementsExact == Spec => []AnnouncedExactly
<1>1. ASSUME Init PROVE EventsInv
  <2>1. ASSUME NEW s \in Shelters PROVE Events(s) = {} /\ Placed(s) = {} /\ occupancy[s] = 0
    BY <1>1, ShelterAssumption DEF Init, Events, Placed
  <2>2. ASSUME NEW s \in Shelters
        PROVE  /\ {e.victim : e \in Events(s)} = Placed(s)
               /\ {e.occupancy : e \in Events(s)} = 1 .. occupancy[s]
               /\ Cardinality(Events(s)) = occupancy[s]
               /\ IsFiniteSet(Events(s))
    BY <2>1, FS_EmptySet
  <2> QED  BY <2>2 DEF EventsInv, AnnouncedExactly, Events
<1>2. ASSUME IInv, EventsInv, [Next]_vars PROVE EventsInv'
  <2>1. CASE \E p \in Procs : Commit(p)
    BY <1>2, <2>1, CommitEvents
  <2>2. CASE UNCHANGED <<outbox, occupancy, vShelter>>
    BY <1>2, <2>2 DEF EventsInv, AnnouncedExactly, Events, Placed
  <2> QED  BY <1>2, <2>1, <2>2, OnlyCommits, OnlyCommitsAnnounce
<1>3. Init => EventsInv
  BY <1>1
<1>4. IInv /\ EventsInv /\ [Next]_vars => EventsInv'
  BY <1>2
<1>5. EventsInv => AnnouncedExactly
  BY DEF EventsInv
<1> QED  BY <1>3, <1>4, <1>5, Invariance, PTL DEF Spec
=============================================================================

-------------------------- MODULE TransportProofs --------------------------
(***************************************************************************)
(* Theorems about TransportSeats: seats are counted exactly, announced as  *)
(* they are, and taken and given back as CapacityLedger promises, for any  *)
(* handlers, vehicles and capacities and any finite set of bookings.       *)
(***************************************************************************)
EXTENDS TransportSeats, FiniteSetTheorems, TLAPS

-----------------------------------------------------------------------------
(* The inductive invariant.                                                 *)

\* A booking was made for some seats, on a registered vehicle that has as many.
BookingsOK ==
  \A b \in Bookings :
    IF bStatus[b] = "absent"
      THEN bSeats[b] = 0
      ELSE bTransport[b] \in fleet /\ bSeats[b] \in 1 .. capacity[bTransport[b]]

\* What a handler's transaction holds, and what it has written.
WorkOf(p) ==
  LET r == seatReq[p] IN
  /\ seatPc[p] = "idle" => r = NoReq
  /\ seatPc[p] # "idle" =>
       /\ r.booking \in Bookings /\ r.transport \in fleet
       /\ \/ /\ r.kind = "book" /\ seatPc[p] = "commit"
             /\ bStatus[r.booking] = "absent"
             /\ r.seats \in 1 .. capacity[r.transport]
             /\ r.taken = seatsTaken[r.transport] + r.seats
             /\ r.taken <= capacity[r.transport]
          \/ /\ r.kind = "cancel"
             /\ bStatus[r.booking] = "booked"
             /\ r.transport = bTransport[r.booking] /\ r.seats = bSeats[r.booking]
             /\ seatPc[p] = "commit" => r.taken = seatsTaken[r.transport] - r.seats

\* Transactions under way have their bookings to themselves, and those about to commit
\* their vehicles.
Apart(p, q) ==
  seatPc[p] # "idle" /\ seatPc[q] # "idle" =>
    /\ seatReq[p].booking # seatReq[q].booking
    /\ seatPc[p] = "commit" /\ seatPc[q] = "commit" =>
         seatReq[p].transport # seatReq[q].transport
Exclusive == \A p, q \in Procs : p # q => Apart(p, q)

\* Events are about registered vehicles.
EventsOK == \A i \in DOMAIN outbox : outbox[i].transport \in fleet

SeatsInv ==
  /\ SeatsTypeOK /\ BookingsOK /\ (\A p \in Procs : WorkOf(p)) /\ Exclusive
  /\ SeatsExact /\ EventsOK /\ LastAnnounced

-----------------------------------------------------------------------------
(* Counting seats.                                                          *)

\* A booking of n seats holds n.
LEMMA SeatsAreCounted ==
  ASSUME NEW b, NEW n \in Nat
  PROVE  IsFiniteSet({b} \X (1 .. n)) /\ Cardinality({b} \X (1 .. n)) = n
<1>1. IsFiniteSet({b}) /\ Cardinality({b}) = 1 BY FS_Singleton
<1>2. IsFiniteSet(1 .. n) /\ Cardinality(1 .. n) = n BY FS_Interval
<1> DEFINE A == {b}  B == 1 .. n
<1> HIDE DEF A, B
<1>3. IsFiniteSet(A) /\ Cardinality(A) = 1 /\ IsFiniteSet(B) /\ Cardinality(B) = n
  BY <1>1, <1>2 DEF A, B
<1>4. IsFiniteSet(A \X B) /\ Cardinality(A \X B) = Cardinality(A) * Cardinality(B)
  BY <1>3, FS_Product
<1> QED BY <1>3, <1>4 DEF A, B

LEMMA HeldIsFinite ==
  ASSUME SeatsTypeOK, BookingsOK, NEW t \in Transports
  PROVE  IsFiniteSet(Held(t)) /\ Cardinality(Held(t)) \in Nat
<1>1. capacity[t] \in Nat BY SeatsAssumption
<1>2. IsFiniteSet(Bookings \X (1 .. capacity[t]))
  <2> DEFINE B == 1 .. capacity[t]
  <2>1. IsFiniteSet(B) BY <1>1, FS_Interval
  <2> HIDE DEF B
  <2>2. IsFiniteSet(Bookings \X B) BY <2>1, SeatsAssumption, FS_Product
  <2> QED BY <2>2 DEF B
<1>3. Held(t) \subseteq Bookings \X (1 .. capacity[t])
  <2> SUFFICES ASSUME NEW b \in Active(t), NEW x \in SeatsOf(b)
               PROVE  x \in Bookings \X (1 .. capacity[t])
    BY DEF Held
  <2>1. b \in Bookings /\ bSeats[b] \in 1 .. capacity[t] BY DEF Active, BookingsOK
  <2> QED BY <1>1, <2>1 DEF SeatsOf
<1> QED BY <1>2, <1>3, FS_Subset, FS_CardinalityType

\* A booking that becomes active on a vehicle adds its seats to those held there.
LEMMA HeldGrows ==
  ASSUME SeatsTypeOK, BookingsOK, NEW b \in Bookings, NEW t \in Transports, NEW n \in Nat,
         bStatus[b] = "absent",
         bStatus' = [bStatus EXCEPT ![b] = "booked"],
         bTransport' = [bTransport EXCEPT ![b] = t],
         bSeats' = [bSeats EXCEPT ![b] = n]
  PROVE  /\ Cardinality(Held(t)') = Cardinality(Held(t)) + n
         /\ \A u \in Transports \ {t} : Held(u)' = Held(u)
<1>1. \A c \in Bookings \ {b} :
        bStatus'[c] = bStatus[c] /\ bTransport'[c] = bTransport[c] /\ bSeats'[c] = bSeats[c]
  BY DEF SeatsTypeOK
<1>2. bStatus'[b] = "booked" /\ bTransport'[b] = t /\ bSeats'[b] = n
  BY DEF SeatsTypeOK
<1>3. \A u \in Transports : b \notin Active(u) BY DEF Active
<1>4. Active(t)' = Active(t) \cup {b} BY <1>1, <1>2 DEF Active
<1>5. \A u \in Transports \ {t} : Active(u)' = Active(u) BY <1>1, <1>2, <1>3 DEF Active
<1>6. \A u \in Transports : \A c \in Active(u) : SeatsOf(c)' = SeatsOf(c)
  BY <1>1, <1>3 DEF SeatsOf, Active
<1>7. Held(t)' = Held(t) \cup ({b} \X (1 .. n))
  BY <1>2, <1>4, <1>6 DEF Held, SeatsOf
<1>8. Held(t) \cap ({b} \X (1 .. n)) = {}
  BY <1>3 DEF Held, SeatsOf
<1>9. Cardinality(Held(t)') = Cardinality(Held(t)) + n
  <2> DEFINE H == Held(t)  N == {b} \X (1 .. n)
  <2>1. IsFiniteSet(H) /\ Cardinality(H) \in Nat BY HeldIsFinite
  <2>2. IsFiniteSet(N) /\ Cardinality(N) = n BY SeatsAreCounted
  <2>3. Held(t)' = H \cup N /\ H \cap N = {} BY <1>7, <1>8
  <2> HIDE DEF H, N
  <2>4. Cardinality(H \cup N) = Cardinality(H) + Cardinality(N) - Cardinality(H \cap N)
    BY <2>1, <2>2, FS_Union
  <2>5. Cardinality(H \cap N) = 0 BY <2>3, FS_EmptySet
  <2> QED BY <2>1, <2>2, <2>3, <2>4, <2>5 DEF H
<1>10. \A u \in Transports \ {t} : Held(u)' = Held(u)
  BY <1>5, <1>6 DEF Held
<1> QED BY <1>9, <1>10

\* A booking that is cancelled takes its seats away from those held on its vehicle.
LEMMA HeldShrinks ==
  ASSUME SeatsTypeOK, BookingsOK, NEW b \in Bookings, bStatus[b] = "booked",
         bStatus' = [bStatus EXCEPT ![b] = "cancelled"],
         UNCHANGED <<bTransport, bSeats>>
  PROVE  /\ Cardinality(Held(bTransport[b])') = Cardinality(Held(bTransport[b])) - bSeats[b]
         /\ \A u \in Transports \ {bTransport[b]} : Held(u)' = Held(u)
<1> DEFINE t == bTransport[b]
<1>1. /\ \A c \in Bookings \ {b} : bStatus'[c] = bStatus[c]
      /\ bStatus'[b] = "cancelled"
  BY DEF SeatsTypeOK
<1>2. t \in Transports /\ bSeats[b] \in Nat BY DEF BookingsOK, SeatsTypeOK
<1>3. b \in Active(t) /\ Active(t)' = Active(t) \ {b} BY <1>1 DEF Active
<1>4. \A u \in Transports \ {t} : Active(u)' = Active(u) BY <1>1 DEF Active
<1>5. \A c : SeatsOf(c)' = SeatsOf(c) BY DEF SeatsOf
<1>6. Held(t) = Held(t)' \cup SeatsOf(b) BY <1>3, <1>5 DEF Held
<1>7. Held(t)' \cap SeatsOf(b) = {} BY <1>3, <1>5 DEF Held, SeatsOf
<1>8. IsFiniteSet(Held(t)) /\ Held(t)' \subseteq Held(t) BY <1>2, <1>6, HeldIsFinite
<1>9. IsFiniteSet(Held(t)') /\ Cardinality(Held(t)') \in Nat
  BY <1>8, FS_Subset, FS_CardinalityType
<1>10. IsFiniteSet(SeatsOf(b)) /\ Cardinality(SeatsOf(b)) = bSeats[b]
  BY <1>2, SeatsAreCounted DEF SeatsOf
<1>11. Cardinality(Held(t)) = Cardinality(Held(t)') + bSeats[b]
  <2> DEFINE H == Held(t)'  N == SeatsOf(b)
  <2>1. IsFiniteSet(H) /\ Cardinality(H) \in Nat BY <1>9
  <2>2. IsFiniteSet(N) /\ Cardinality(N) = bSeats[b] BY <1>10
  <2>3. Held(t) = H \cup N /\ H \cap N = {} BY <1>6, <1>7
  <2> HIDE DEF H, N
  <2>4. Cardinality(H \cup N) = Cardinality(H) + Cardinality(N) - Cardinality(H \cap N)
    BY <2>1, <2>2, FS_Union
  <2>5. Cardinality(H \cap N) = 0 BY <2>3, FS_EmptySet
  <2> QED BY <1>2, <2>1, <2>2, <2>3, <2>4, <2>5 DEF H
<1>12. \A u \in Transports \ {t} : Held(u)' = Held(u) BY <1>4, <1>5 DEF Held
<1> QED BY <1>2, <1>9, <1>11, <1>12

\* A booking holds no more than its vehicle has taken, so a refund never reaches the
\* floor of GREATEST.
LEMMA RefundFits ==
  ASSUME SeatsInv, NEW b \in Bookings, bStatus[b] = "booked"
  PROVE  seatsTaken[bTransport[b]] - bSeats[b] \in Nat
<1> DEFINE t == bTransport[b]
<1>1. t \in Transports /\ bSeats[b] \in Nat BY DEF SeatsInv, BookingsOK, SeatsTypeOK
<1>2. SeatsOf(b) \subseteq Held(t) BY DEF Held, Active
<1>3. IsFiniteSet(Held(t)) /\ Cardinality(Held(t)) \in Nat BY <1>1, HeldIsFinite DEF SeatsInv
<1>4. Cardinality(SeatsOf(b)) = bSeats[b] BY <1>1, SeatsAreCounted DEF SeatsOf
<1>5. Cardinality(SeatsOf(b)) <= Cardinality(Held(t)) BY <1>2, <1>3, FS_Subset
<1>6. seatsTaken[t] = Cardinality(Held(t)) BY <1>1 DEF SeatsInv, SeatsExact
<1> QED BY <1>1, <1>3, <1>4, <1>5, <1>6

-----------------------------------------------------------------------------
(* The steps.                                                               *)

LEMMA SeatsStart == ASSUME SeatsInit PROVE SeatsInv
<1>1. SeatsTypeOK
  BY SeatsAssumption DEF SeatsInit, SeatsTypeOK, SeatLocals, NoReq
<1>2. \A t \in Transports : Active(t) = {} BY DEF SeatsInit, Active
<1>3. \A t \in Transports : Held(t) = {} BY <1>2 DEF Held
<1>4. SeatsExact BY <1>3, FS_EmptySet DEF SeatsExact, SeatsInit
<1>5. BookingsOK /\ (\A p \in Procs : WorkOf(p)) /\ Exclusive
  BY DEF SeatsInit, BookingsOK, WorkOf, Exclusive, Apart
<1>6. EventsOK /\ LastAnnounced BY DEF SeatsInit, EventsOK, LastAnnounced
<1> QED BY <1>1, <1>4, <1>5, <1>6 DEF SeatsInv

\* No handler has anything to do with a vehicle that is not registered yet, and no seat is
\* taken on it.
LEMMA UnregisteredIsEmpty ==
  ASSUME SeatsInv, NEW t \in Transports, t \notin fleet PROVE seatsTaken[t] = 0
<1>1. Active(t) = {} BY DEF SeatsInv, BookingsOK, Active
<1>2. Held(t) = {} BY <1>1 DEF Held
<1> QED BY <1>2, FS_EmptySet DEF SeatsInv, SeatsExact

\* What the rows say does not change while a transaction is under way.
LEMMA RowsKept ==
  ASSUME SeatsInv, UNCHANGED <<seatsTaken, bookingVars, outbox>>, fleet \subseteq fleet'
  PROVE  BookingsOK' /\ SeatsExact' /\ EventsOK' /\ LastAnnounced'
<1>1. UNCHANGED <<seatsTaken, bStatus, bTransport, bSeats, outbox>> BY DEF bookingVars
<1>2. BookingsOK' BY <1>1 DEF SeatsInv, BookingsOK
<1>3. \A t \in Transports : Held(t)' = Held(t) BY <1>1 DEF Held, Active, SeatsOf
<1>4. SeatsExact' BY <1>1, <1>3 DEF SeatsInv, SeatsExact
<1>5. EventsOK' /\ LastAnnounced' BY <1>1 DEF SeatsInv, EventsOK, LastAnnounced
<1> QED BY <1>2, <1>4, <1>5

LEMMA CreateStep == ASSUME SeatsInv, NEW t \in Transports, Create(t) PROVE SeatsInv'
<1>1. /\ t \notin fleet /\ fleet' = fleet \cup {t}
      /\ seatsTaken' = [seatsTaken EXCEPT ![t] = 0]
      /\ UNCHANGED <<bookingVars, outbox, seatPc, seatReq>>
  BY DEF Create
<1>2. seatsTaken' = seatsTaken
  BY <1>1, UnregisteredIsEmpty DEF SeatsInv, SeatsTypeOK
<1>3. BookingsOK' /\ SeatsExact' /\ EventsOK' /\ LastAnnounced' BY <1>1, <1>2, RowsKept
<1>4. SeatsTypeOK' BY <1>1, <1>2 DEF SeatsInv, SeatsTypeOK, bookingVars
<1>5. (\A p \in Procs : WorkOf(p))' /\ Exclusive'
  BY <1>1, <1>2 DEF SeatsInv, WorkOf, Exclusive, Apart, bookingVars
<1> QED BY <1>3, <1>4, <1>5 DEF SeatsInv

\* A step of a transaction that commits nothing.
LEMMA TransactionStep ==
  ASSUME SeatsInv, NEW p \in Procs, NEW step \in {"idle", "refund", "commit"},
         NEW r \in SeatLocals,
         seatPc' = [seatPc EXCEPT ![p] = step], seatReq' = [seatReq EXCEPT ![p] = r],
         UNCHANGED <<fleet, seatsTaken, bookingVars, outbox>>,
         WorkOf(p)', \A q \in Procs \ {p} : Apart(p, q)'
  PROVE  SeatsInv'
<1>1. BookingsOK' /\ SeatsExact' /\ EventsOK' /\ LastAnnounced' BY RowsKept
<1>2. SeatsTypeOK' BY DEF SeatsInv, SeatsTypeOK, bookingVars
<1>3. \A q \in Procs \ {p} : seatPc'[q] = seatPc[q] /\ seatReq'[q] = seatReq[q]
  BY DEF SeatsInv, SeatsTypeOK
<1>4. \A q \in Procs \ {p} : WorkOf(q)' BY <1>3 DEF SeatsInv, WorkOf, bookingVars
<1>5. Exclusive' BY <1>3 DEF SeatsInv, Exclusive, Apart
<1> QED BY <1>1, <1>2, <1>4, <1>5 DEF SeatsInv

LEMMA BookStep ==
  ASSUME SeatsInv, NEW p \in Procs, NEW b \in Bookings, NEW t \in Transports,
         NEW n \in 1 .. capacity[t], BookSeats(p, b, t, n)
  PROVE  SeatsInv'
<1> DEFINE r == [kind |-> "book", booking |-> b, transport |-> t,
                 seats |-> n, taken |-> seatsTaken[t] + n]
<1>1. /\ seatPc[p] = "idle" /\ t \in fleet /\ seatsTaken[t] + n <= capacity[t]
      /\ bStatus[b] = "absent"
      /\ seatPc' = [seatPc EXCEPT ![p] = "commit"] /\ seatReq' = [seatReq EXCEPT ![p] = r]
      /\ UNCHANGED <<fleet, seatsTaken, bookingVars, outbox>>
  BY DEF BookSeats, Fits, SeatGoto
<1>2. capacity[t] \in Nat /\ n \in Nat BY SeatsAssumption
<1>3. seatsTaken[t] + n \in Nat BY <1>2 DEF SeatsInv, SeatsTypeOK
<1>4. r \in SeatLocals BY <1>2, <1>3 DEF SeatLocals
<1>5. seatPc'[p] = "commit" /\ seatReq'[p] = r
      /\ \A q \in Procs \ {p} : seatPc'[q] = seatPc[q] /\ seatReq'[q] = seatReq[q]
  BY <1>1 DEF SeatsInv, SeatsTypeOK
<1>6. WorkOf(p)' BY <1>1, <1>5 DEF WorkOf, bookingVars
<1>7. \A q \in Procs \ {p} : seatReq[q].booking # b
                               /\ (seatPc[q] = "commit" => seatReq[q].transport # t)
  BY DEF BookSeats, BookingFree, RowFree
<1>8. \A q \in Procs \ {p} : Apart(p, q)' BY <1>5, <1>7 DEF Apart
<1> HIDE DEF r
<1> QED BY <1>1, <1>4, <1>6, <1>8, TransactionStep

LEMMA CancelStep ==
  ASSUME SeatsInv, NEW p \in Procs, NEW b \in Bookings, CancelBooking(p, b) PROVE SeatsInv'
<1> DEFINE r == [NoReq EXCEPT !.kind = "cancel", !.booking = b,
                               !.transport = bTransport[b], !.seats = bSeats[b]]
<1>1. /\ seatPc[p] = "idle" /\ bStatus[b] = "booked"
      /\ seatPc' = [seatPc EXCEPT ![p] = "refund"]
      /\ seatReq' = [seatReq EXCEPT ![p] = r]
      /\ UNCHANGED <<fleet, seatsTaken, bookingVars, outbox>>
  BY DEF CancelBooking, StillBooked, SeatGoto
<1>3. /\ bTransport[b] \in fleet /\ bTransport[b] \in Transports /\ bSeats[b] \in Nat
  BY <1>1 DEF SeatsInv, BookingsOK, SeatsTypeOK
<1>2. /\ r.kind = "cancel" /\ r.booking = b /\ r.transport = bTransport[b]
      /\ r.seats = bSeats[b]
  BY DEF NoReq
<1>4. r \in SeatLocals BY <1>3 DEF SeatLocals, NoReq
<1> HIDE DEF r
<1>5. seatPc'[p] = "refund" /\ seatReq'[p] = r
      /\ \A q \in Procs \ {p} : seatPc'[q] = seatPc[q] /\ seatReq'[q] = seatReq[q]
  BY <1>1 DEF SeatsInv, SeatsTypeOK
<1>6. WorkOf(p)' BY <1>1, <1>2, <1>3, <1>5 DEF WorkOf, bookingVars
<1>7. \A q \in Procs \ {p} : seatReq[q].booking # b BY DEF CancelBooking, BookingFree
<1>8. \A q \in Procs \ {p} : Apart(p, q)' BY <1>2, <1>5, <1>7 DEF Apart
<1> QED BY <1>1, <1>4, <1>6, <1>8, TransactionStep

LEMMA RefundStep == ASSUME SeatsInv, NEW p \in Procs, Refund(p) PROVE SeatsInv'
<1> DEFINE t == seatReq[p].transport
           left == seatsTaken[t] - seatReq[p].seats
           r == [seatReq[p] EXCEPT !.taken = left]
<1>1. /\ seatPc[p] = "refund"
      /\ seatReq' = [seatReq EXCEPT ![p].taken = GREATEST(left, 0)]
      /\ seatPc' = [seatPc EXCEPT ![p] = "commit"]
      /\ UNCHANGED <<fleet, seatsTaken, bookingVars, outbox>>
      /\ \A q \in Procs : seatPc[q] = "commit" => seatReq[q].transport # t
  BY DEF Refund, RowFree, SeatGoto
<1>2. WorkOf(p) BY DEF SeatsInv
<1>3. /\ seatReq[p].kind = "cancel" /\ bStatus[seatReq[p].booking] = "booked"
      /\ seatReq[p].booking \in Bookings /\ t \in fleet
      /\ t = bTransport[seatReq[p].booking] /\ seatReq[p].seats = bSeats[seatReq[p].booking]
  BY <1>1, <1>2 DEF WorkOf
<1>4. left \in Nat BY <1>3, RefundFits
<1>5. GREATEST(left, 0) = left BY <1>4 DEF GREATEST
<1>6. seatReq[p] \in SeatLocals BY DEF SeatsInv, SeatsTypeOK
<1>7. seatReq' = [seatReq EXCEPT ![p] = r] BY <1>1, <1>5
<1>8. r \in SeatLocals BY <1>4, <1>6 DEF SeatLocals
<1>9. seatPc'[p] = "commit" /\ seatReq'[p] = r
      /\ \A q \in Procs \ {p} : seatPc'[q] = seatPc[q] /\ seatReq'[q] = seatReq[q]
  BY <1>1, <1>7 DEF SeatsInv, SeatsTypeOK
<1>10. /\ r.kind = "cancel" /\ r.booking = seatReq[p].booking /\ r.transport = t
       /\ r.seats = seatReq[p].seats /\ r.taken = left
  BY <1>3, <1>6 DEF SeatLocals
<1> HIDE DEF r
<1>11. WorkOf(p)'
  <2>1. seatPc'[p] = "commit" /\ seatReq'[p] = r BY <1>9
  <2>2. UNCHANGED <<fleet, seatsTaken, bStatus, bTransport, bSeats>> BY <1>1 DEF bookingVars
  <2> HIDE DEF left
  <2>3. left = seatsTaken[t] - seatReq[p].seats BY DEF left
  <2> HIDE DEF t
  <2> QED BY <1>3, <1>10, <2>1, <2>2, <2>3 DEF WorkOf
<1>12. \A q \in Procs \ {p} : Apart(p, q)'
  BY <1>1, <1>9, <1>10 DEF Apart, SeatsInv, Exclusive
<1> QED BY <1>1, <1>7, <1>8, <1>11, <1>12, TransactionStep

LEMMA NoReqIsLocals == NoReq \in SeatLocals
BY DEF NoReq, SeatLocals

LEMMA CrashStep == ASSUME SeatsInv, NEW p \in Procs, Crash(p) PROVE SeatsInv'
<1>1. /\ seatPc' = [seatPc EXCEPT ![p] = "idle"] /\ seatReq' = [seatReq EXCEPT ![p] = NoReq]
      /\ UNCHANGED <<fleet, seatsTaken, bookingVars, outbox>>
  BY DEF Crash, End, SeatGoto
<1>2. seatPc'[p] = "idle" /\ seatReq'[p] = NoReq BY <1>1 DEF SeatsInv, SeatsTypeOK
<1>3. WorkOf(p)' BY <1>2 DEF WorkOf, NoReq
<1>4. \A q \in Procs \ {p} : Apart(p, q)' BY <1>2 DEF Apart
<1> QED BY <1>1, <1>3, <1>4, NoReqIsLocals, TransactionStep

\* What the commits of BookSeats and CancelBooking publish.
Booked(b, t, n) ==
  /\ n \in 1 .. capacity[t] /\ seatsTaken[t] + n <= capacity[t]
  /\ bStatus[b] = "absent"
  /\ bStatus' = [bStatus EXCEPT ![b] = "booked"]
  /\ bTransport' = [bTransport EXCEPT ![b] = t]
  /\ bSeats' = [bSeats EXCEPT ![b] = n]
  /\ seatsTaken' = [seatsTaken EXCEPT ![t] = seatsTaken[t] + n]
Cancelled(b, t) ==
  /\ bStatus[b] = "booked" /\ t = bTransport[b]
  /\ bStatus' = [bStatus EXCEPT ![b] = "cancelled"]
  /\ UNCHANGED <<bTransport, bSeats>>
  /\ seatsTaken' = [seatsTaken EXCEPT ![t] = seatsTaken[t] - bSeats[b]]

LEMMA CommitCases ==
  ASSUME SeatsInv, NEW p \in Procs, Commit(p)
  PROVE  \E b \in Bookings, t \in Transports :
           /\ seatPc[p] = "commit" /\ b = seatReq[p].booking /\ t = seatReq[p].transport
           /\ t \in fleet
           /\ Cancelled(b, t) \/ \E n \in Nat : Booked(b, t, n)
<1> DEFINE b == seatReq[p].booking
           t == seatReq[p].transport
           n == seatReq[p].seats
<1>1. /\ seatPc[p] = "commit"
      /\ seatsTaken' = [seatsTaken EXCEPT ![t] = seatReq[p].taken]
      /\ bStatus' = [bStatus EXCEPT ![b] = IF seatReq[p].kind = "book" THEN "booked"
                                                                     ELSE "cancelled"]
      /\ bTransport' = [bTransport EXCEPT ![b] = t]
      /\ bSeats' = [bSeats EXCEPT ![b] = n]
  BY DEF Commit
<1>2. WorkOf(p) BY DEF SeatsInv
<1>3. b \in Bookings /\ t \in fleet /\ t \in Transports /\ n \in Nat
  BY <1>1, <1>2 DEF WorkOf, SeatsInv, SeatsTypeOK, SeatLocals
<1>4. CASE seatReq[p].kind = "book"
  <2>1. Booked(b, t, n) BY <1>1, <1>2, <1>4 DEF WorkOf, Booked
  <2> QED BY <1>1, <1>3, <2>1
<1>5. CASE seatReq[p].kind = "cancel"
  <2>1. /\ bStatus[b] = "booked" /\ t = bTransport[b] /\ n = bSeats[b]
        /\ seatReq[p].taken = seatsTaken[t] - n
    BY <1>1, <1>2, <1>5 DEF WorkOf
  <2>2. UNCHANGED <<bTransport, bSeats>> BY <1>1, <2>1 DEF SeatsInv, SeatsTypeOK
  <2>3. Cancelled(b, t) BY <1>1, <1>5, <2>1, <2>2 DEF Cancelled
  <2> QED BY <1>1, <1>3, <2>3
<1> QED BY <1>1, <1>2, <1>4, <1>5 DEF WorkOf

\* Either way the rows stay sound and the count stays exact.
LEMMA CommitRows ==
  ASSUME SeatsInv, NEW b \in Bookings, NEW t \in fleet, fleet' = fleet,
         Cancelled(b, t) \/ \E n \in Nat : Booked(b, t, n)
  PROVE  /\ BookingsOK' /\ SeatsExact'
         /\ bStatus' \in [Bookings -> {"absent", "booked", "cancelled"}]
         /\ bTransport' \in [Bookings -> Transports \cup {None}]
         /\ bSeats' \in [Bookings -> Nat]
         /\ seatsTaken' \in [Transports -> Nat]
         /\ \A u \in Transports : seatsTaken'[u] <= capacity[u]
<1> t \in Transports BY DEF SeatsInv, SeatsTypeOK
<1> USE SeatsAssumption
<1>1. ASSUME NEW n \in Nat, Booked(b, t, n)
      PROVE  /\ BookingsOK' /\ SeatsExact'
             /\ bStatus' \in [Bookings -> {"absent", "booked", "cancelled"}]
             /\ bTransport' \in [Bookings -> Transports \cup {None}]
             /\ bSeats' \in [Bookings -> Nat]
             /\ seatsTaken' \in [Transports -> Nat]
             /\ \A u \in Transports : seatsTaken'[u] <= capacity[u]
  <2>1. BookingsOK' BY <1>1 DEF Booked, SeatsInv, SeatsTypeOK, BookingsOK
  <2>2. /\ Cardinality(Held(t)') = Cardinality(Held(t)) + n
        /\ \A u \in Transports \ {t} : Held(u)' = Held(u)
    BY <1>1, HeldGrows DEF Booked, SeatsInv
  <2>3. /\ seatsTaken'[t] = seatsTaken[t] + n
        /\ \A u \in Transports \ {t} : seatsTaken'[u] = seatsTaken[u]
    BY <1>1 DEF Booked, SeatsInv, SeatsTypeOK
  <2>4. SeatsExact' BY <2>2, <2>3 DEF SeatsInv, SeatsExact
  <2>5. seatsTaken[t] + n \in Nat /\ seatsTaken[t] + n <= capacity[t]
    BY <1>1 DEF Booked, SeatsInv, SeatsTypeOK
  <2> QED BY <1>1, <2>1, <2>3, <2>4, <2>5 DEF Booked, SeatsInv, SeatsTypeOK
<1>2. ASSUME Cancelled(b, t)
      PROVE  /\ BookingsOK' /\ SeatsExact'
             /\ bStatus' \in [Bookings -> {"absent", "booked", "cancelled"}]
             /\ bTransport' \in [Bookings -> Transports \cup {None}]
             /\ bSeats' \in [Bookings -> Nat]
             /\ seatsTaken' \in [Transports -> Nat]
             /\ \A u \in Transports : seatsTaken'[u] <= capacity[u]
  <2>1. BookingsOK' BY <1>2 DEF Cancelled, SeatsInv, SeatsTypeOK, BookingsOK
  <2>2. /\ Cardinality(Held(t)') = Cardinality(Held(t)) - bSeats[b]
        /\ \A u \in Transports \ {t} : Held(u)' = Held(u)
    BY <1>2, HeldShrinks DEF Cancelled, SeatsInv
  <2>3. /\ seatsTaken'[t] = seatsTaken[t] - bSeats[b]
        /\ \A u \in Transports \ {t} : seatsTaken'[u] = seatsTaken[u]
    BY <1>2 DEF Cancelled, SeatsInv, SeatsTypeOK
  <2>4. SeatsExact' BY <2>2, <2>3 DEF SeatsInv, SeatsExact
  <2>5. seatsTaken[t] - bSeats[b] \in Nat BY <1>2, RefundFits DEF Cancelled
  <2>6. seatsTaken[t] - bSeats[b] <= capacity[t]
    BY <2>5 DEF SeatsInv, SeatsTypeOK
  <2> QED BY <1>2, <2>1, <2>3, <2>4, <2>5, <2>6 DEF Cancelled, SeatsInv, SeatsTypeOK
<1> QED BY <1>1, <1>2

\* The event a commit adds carries the count it leaves.
LEMMA CommitAnnounces ==
  ASSUME SeatsInv, NEW p \in Procs, Commit(p)
  PROVE  EventsOK' /\ LastAnnounced' /\ outbox' \in Seq(SeatEvents)
<1> DEFINE t == seatReq[p].transport
           status == IF seatReq[p].kind = "book" THEN "booked" ELSE "cancelled"
           e == [booking |-> seatReq[p].booking, transport |-> t, status |-> status,
                 seatsTaken |-> seatReq[p].taken]
<1>1. /\ outbox' = Append(outbox, e)
      /\ seatsTaken' = [seatsTaken EXCEPT ![t] = seatReq[p].taken]
      /\ UNCHANGED fleet
  BY DEF Commit, ReadBack
<1>2. /\ seatReq[p].booking \in Bookings /\ t \in fleet /\ t \in Transports
      /\ seatReq[p].taken \in Nat
  BY DEF Commit, SeatsInv, WorkOf, SeatsTypeOK, SeatLocals
<1>3. e \in SeatEvents BY <1>2 DEF SeatEvents
<1>4. e.transport = t /\ e.seatsTaken = seatsTaken'[t]
  BY <1>1, <1>2 DEF SeatsInv, SeatsTypeOK
<1> HIDE DEF e
<1>5. outbox \in Seq(SeatEvents) BY DEF SeatsInv, SeatsTypeOK
<1>6. /\ outbox' \in Seq(SeatEvents)
      /\ DOMAIN outbox = 1 .. Len(outbox) /\ Len(outbox) \in Nat
      /\ DOMAIN outbox' = 1 .. Len(outbox) + 1
      /\ outbox'[Len(outbox) + 1] = e
      /\ \A i \in 1 .. Len(outbox) : outbox'[i] = outbox[i]
  BY <1>1, <1>3, <1>5
<1>7. EventsOK' BY <1>1, <1>2, <1>4, <1>6 DEF SeatsInv, EventsOK
<1>8. LastAnnounced'
  <2> SUFFICES ASSUME NEW i \in DOMAIN outbox'
               PROVE  \/ outbox'[i].seatsTaken = seatsTaken'[outbox'[i].transport]
                      \/ \E j \in DOMAIN outbox' :
                           j > i /\ outbox'[j].transport = outbox'[i].transport
    BY DEF LastAnnounced
  <2>1. CASE i = Len(outbox) + 1 BY <1>4, <1>6, <2>1
  <2>2. CASE i \in 1 .. Len(outbox) /\ outbox[i].transport = t
    <3>1. Len(outbox) + 1 > i BY <1>6, <2>2
    <3> QED BY <1>4, <1>6, <2>2, <3>1
  <2>3. CASE i \in 1 .. Len(outbox) /\ outbox[i].transport # t
    <3>1. \/ outbox[i].seatsTaken = seatsTaken[outbox[i].transport]
          \/ \E j \in DOMAIN outbox : j > i /\ outbox[j].transport = outbox[i].transport
      BY <1>6, <2>3 DEF SeatsInv, LastAnnounced
    <3>2. outbox[i].transport \in Transports
      BY <1>6, <2>3 DEF SeatsInv, EventsOK, SeatsTypeOK
    <3>3. seatsTaken'[outbox[i].transport] = seatsTaken[outbox[i].transport]
      BY <1>1, <2>3, <3>2 DEF SeatsInv, SeatsTypeOK
    <3> QED BY <1>6, <2>3, <3>1, <3>3
  <2> QED BY <1>6, <2>1, <2>2, <2>3
<1> QED BY <1>6, <1>7, <1>8

LEMMA CommitStep == ASSUME SeatsInv, NEW p \in Procs, Commit(p) PROVE SeatsInv'
<1>1. PICK b \in Bookings, t \in Transports :
        /\ seatPc[p] = "commit" /\ b = seatReq[p].booking /\ t = seatReq[p].transport
        /\ t \in fleet
        /\ Cancelled(b, t) \/ \E n \in Nat : Booked(b, t, n)
  BY CommitCases
<1>2. /\ seatPc' = [seatPc EXCEPT ![p] = "idle"] /\ seatReq' = [seatReq EXCEPT ![p] = NoReq]
      /\ fleet' = fleet
  BY DEF Commit, End, SeatGoto
<1>3. SeatsTypeOK'
  BY <1>1, <1>2, CommitRows, CommitAnnounces, NoReqIsLocals DEF SeatsInv, SeatsTypeOK
<1>4. BookingsOK' /\ SeatsExact' BY <1>1, <1>2, CommitRows
<1>5. EventsOK' /\ LastAnnounced' BY CommitAnnounces
<1>6. seatPc'[p] = "idle" /\ seatReq'[p] = NoReq
      /\ \A q \in Procs \ {p} : seatPc'[q] = seatPc[q] /\ seatReq'[q] = seatReq[q]
  BY <1>2 DEF SeatsInv, SeatsTypeOK
<1>7. Exclusive' BY <1>6 DEF SeatsInv, Exclusive, Apart
<1>8. /\ \A c \in Bookings \ {b} :
           bStatus'[c] = bStatus[c] /\ bTransport'[c] = bTransport[c] /\ bSeats'[c] = bSeats[c]
      /\ \A u \in Transports \ {t} : seatsTaken'[u] = seatsTaken[u]
  BY <1>1 DEF Booked, Cancelled, SeatsInv, SeatsTypeOK
<1>9. ASSUME NEW q \in Procs PROVE WorkOf(q)'
  <2>1. CASE q = p BY <1>6, <2>1 DEF WorkOf, NoReq
  <2>2. CASE q # p /\ seatPc[q] = "idle" BY <1>6, <2>2 DEF SeatsInv, WorkOf
  <2>3. CASE q # p /\ seatPc[q] # "idle"
    <3>1. Apart(p, q) /\ WorkOf(q) BY <2>3 DEF SeatsInv, Exclusive
    <3>2. seatReq[q].booking \in Bookings \ {b} /\ seatReq[q].transport \in Transports
      BY <1>1, <2>3, <3>1 DEF Apart, WorkOf, SeatsInv, SeatsTypeOK
    <3>3. seatPc[q] = "commit" => seatReq[q].transport # t
      BY <1>1, <2>3, <3>1 DEF Apart
    <3> QED BY <1>2, <1>6, <1>8, <2>3, <3>1, <3>2, <3>3 DEF WorkOf
  <2> QED BY <2>1, <2>2, <2>3
<1> QED BY <1>3, <1>4, <1>5, <1>7, <1>9 DEF SeatsInv

LEMMA SeatsSteps == ASSUME SeatsInv, [SeatsNext]_seatVars PROVE SeatsInv'
<1>1. ASSUME UNCHANGED seatVars PROVE SeatsInv'
  <2>1. UNCHANGED <<fleet, seatsTaken, bookingVars, outbox, seatPc, seatReq>>
    BY <1>1 DEF seatVars
  <2>2. BookingsOK' /\ SeatsExact' /\ EventsOK' /\ LastAnnounced' BY <2>1, RowsKept
  <2> QED BY <2>1, <2>2 DEF SeatsInv, SeatsTypeOK, WorkOf, Exclusive, Apart, bookingVars
<1> QED
  BY <1>1, CreateStep, BookStep, CancelStep, RefundStep, CommitStep, CrashStep
  DEF SeatsNext, Book

-----------------------------------------------------------------------------
\* Every reachable state is well typed, and no count exceeds the vehicle's capacity, which
\* the CHECK of migration 000016 would refuse.
THEOREM SeatsTypeCorrect == SeatsSpec => []SeatsTypeOK
<1>1. SeatsInv => SeatsTypeOK BY DEF SeatsInv
<1> QED BY <1>1, SeatsStart, SeatsSteps, PTL DEF SeatsSpec

\* The running total seats_taken, kept by BookSeats and CancelBooking one increment at a
\* time, is always the number of seats that active bookings hold.
THEOREM SeatsAreExact == SeatsSpec => []SeatsExact
<1>1. SeatsInv => SeatsExact BY DEF SeatsInv
<1> QED BY <1>1, SeatsStart, SeatsSteps, PTL DEF SeatsSpec

\* The outbox tells a consumer that follows the events in order each vehicle's count.
THEOREM LastEventCounts == SeatsSpec => []LastAnnounced
<1>1. SeatsInv => LastAnnounced BY DEF SeatsInv
<1> QED BY <1>1, SeatsStart, SeatsSteps, PTL DEF SeatsSpec

\* BookSeats and CancelBooking, with their locks and crashes, do to the fleet what
\* CapacityLedger promises and nothing else.
THEOREM SeatsImplementLedger == SeatsSpec => ImplementsLedger
<1>1. SeatsInit => Ledger!Init
  BY DEF SeatsInit, Ledger!Init, BookedOn
<1>2. ASSUME SeatsInv, [SeatsNext]_seatVars PROVE [Ledger!Next]_(Ledger!vars)
  <2>1. CASE UNCHANGED <<seatsTaken, bookingVars>>
    BY <2>1 DEF Ledger!vars, BookedOn, bookingVars
  <2>2. ASSUME NEW t \in Transports, Create(t) PROVE UNCHANGED <<seatsTaken, bookingVars>>
    BY <1>2, <2>2, UnregisteredIsEmpty DEF Create, SeatsInv, SeatsTypeOK
  <2>3. ASSUME NEW p \in Procs, Commit(p) PROVE Ledger!Next
    <3>1. PICK b \in Bookings, t \in Transports :
            Cancelled(b, t) \/ \E n \in Nat : Booked(b, t, n)
      BY <1>2, <2>3, CommitCases
    <3>2. ASSUME NEW n \in Nat, Booked(b, t, n) PROVE Ledger!Take(b, t, n)
      <4>1. bSeats[b] = 0 BY <1>2, <3>2 DEF SeatsInv, BookingsOK, Booked
      <4>2. BookedOn' = [BookedOn EXCEPT ![b] = t]
        BY <1>2, <3>2 DEF Booked, BookedOn, SeatsInv, SeatsTypeOK
      <4> QED BY <3>2, <4>1, <4>2 DEF Booked, Ledger!Take
    <3>3. ASSUME Cancelled(b, t) PROVE Ledger!Give(b)
      <4>1. BookedOn[b] = t /\ t # None BY <3>3, SeatsAssumption DEF Cancelled, BookedOn
      <4>2. BookedOn' = [BookedOn EXCEPT ![b] = None]
        BY <1>2, <3>3 DEF Cancelled, BookedOn, SeatsInv, SeatsTypeOK
      <4> QED BY <3>3, <4>1, <4>2 DEF Cancelled, Ledger!Give
    <3>4. ASSUME NEW n \in Nat, Booked(b, t, n) PROVE n \in 1 .. capacity[t]
      BY <3>4 DEF Booked
    <3> QED BY <3>1, <3>2, <3>3, <3>4 DEF Ledger!Next
  <2>4. \/ UNCHANGED <<seatsTaken, bookingVars>>
        \/ \E t \in Transports : Create(t)
        \/ \E p \in Procs : Commit(p)
    BY <1>2 DEF SeatsNext, Book, BookSeats, CancelBooking, Refund, Crash, seatVars
  <2> QED BY <2>1, <2>2, <2>3, <2>4
<1>3. SeatsInv /\ [SeatsNext]_seatVars => [Ledger!Next]_(Ledger!vars)
  BY <1>2
<1> QED
  BY <1>1, <1>3, SeatsStart, SeatsSteps, PTL DEF SeatsSpec, ImplementsLedger, Ledger!Spec
=============================================================================

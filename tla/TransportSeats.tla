--------------------------- MODULE TransportSeats ---------------------------
(***************************************************************************)
(* Seats on evacuation vehicles: booking N at once and cancelling.         *)
(*                                                                         *)
(* BookSeats takes the seats with one guarded UPDATE, which keeps the      *)
(* vehicle's row locked, then inserts the booking and the event.           *)
(* CancelBooking flips the booking first and locks the vehicle second.     *)
(* Locks are told by seatPc: "refund" holds the booking, "commit" the      *)
(* vehicle too.  No code changes a vehicle's status, so registered         *)
(* vehicles are available; no code completes a booking.                    *)
(***************************************************************************)
EXTENDS Integers, FiniteSets, Sequences

CONSTANTS
  Procs,      \* request handlers
  Transports, Bookings,
  capacity,   \* transports.capacity
  None

ASSUME SeatsAssumption ==
  /\ IsFiniteSet(Bookings)
  /\ capacity \in [Transports -> Nat \ {0}]
  /\ None \notin Bookings /\ None \notin Transports

VARIABLES
  fleet,      \* registered transports
  seatsTaken, \* transports.seats_taken
  bStatus, bTransport, bSeats, \* transport_bookings: "absent" before the INSERT
  outbox,     \* committed events, in the order of their ids per vehicle
  seatPc, seatReq     \* each handler's next statement and its locals

bookingVars == <<bStatus, bTransport, bSeats>>
seatVars == <<fleet, seatsTaken, bookingVars, outbox, seatPc, seatReq>>

NoReq == [kind |-> "none", booking |-> None, transport |-> None, seats |-> 0, taken |-> 0]

SeatGoto(p, step) == seatPc' = [seatPc EXCEPT ![p] = step]
End(p) == SeatGoto(p, "idle") /\ seatReq' = [seatReq EXCEPT ![p] = NoReq]

\* Row locks: a booking from its UPDATE, a transport from its UPDATE, to the end.
BookingFree(b) == \A q \in Procs : seatReq[q].booking # b
NoLock(t) == TRUE \* mutant: the count is read and written by two statements
RowFree(t) == \A q \in Procs : seatPc[q] = "commit" => seatReq[q].transport # t

-----------------------------------------------------------------------------
Create(t) ==
  /\ t \notin fleet
  /\ fleet' = fleet \cup {t}
  /\ seatsTaken' = [seatsTaken EXCEPT ![t] = 0]
  /\ UNCHANGED <<bookingVars, outbox, seatPc, seatReq>>

OffByOne(t, n) == seatsTaken[t] + n <= capacity[t] + 1 \* mutant
Fits(t, n) == seatsTaken[t] + n <= capacity[t]

\* The guarded UPDATE of step 2; a refusal holds nothing and changes nothing.
\* b is the id of the booking inserted under the same locks.
BookSeats(p, b, t, n) ==
  /\ seatPc[p] = "idle"
  /\ t \in fleet
  /\ Fits(t, n)
  /\ RowFree(t)
  /\ bStatus[b] = "absent" /\ BookingFree(b)
  /\ seatReq' = [seatReq EXCEPT ![p] = [kind |-> "book", booking |-> b, transport |-> t,
                                seats |-> n, taken |-> seatsTaken[t] + n]]
  /\ SeatGoto(p, "commit")
  /\ UNCHANGED <<fleet, seatsTaken, bookingVars, outbox>>

\* mutant: cancelled bookings are cancelled again
AnyBooking(b) == bStatus[b] # "absent"
StillBooked(b) == bStatus[b] = "booked"

\* UPDATE transport_bookings .. WHERE status = 'booked'.
CancelBooking(p, b) ==
  /\ seatPc[p] = "idle"
  /\ BookingFree(b)
  /\ StillBooked(b)
  /\ seatReq' = [seatReq EXCEPT ![p] = [NoReq EXCEPT !.kind = "cancel", !.booking = b,
                                  !.transport = bTransport[b], !.seats = bSeats[b]]]
  /\ SeatGoto(p, "refund")
  /\ UNCHANGED <<fleet, seatsTaken, bookingVars, outbox>>

GREATEST(m, n) == IF m >= n THEN m ELSE n

\* GREATEST(seats_taken - n, 0) under the vehicle's lock.
Refund(p) ==
  LET t == seatReq[p].transport IN
  /\ seatPc[p] = "refund"
  /\ RowFree(t)
  /\ seatReq' = [seatReq EXCEPT ![p].taken = GREATEST(seatsTaken[t] - seatReq[p].seats, 0)]
  /\ SeatGoto(p, "commit")
  /\ UNCHANGED <<fleet, seatsTaken, bookingVars, outbox>>

\* mutant: the count announced is the one committed before this transaction
BeforeWrite(p) == seatsTaken[seatReq[p].transport]
\* The transaction's own read of the vehicle, after its UPDATE.
ReadBack(p) == seatReq[p].taken

Commit(p) ==
  LET b == seatReq[p].booking  t == seatReq[p].transport
      status == IF seatReq[p].kind = "book" THEN "booked" ELSE "cancelled"
  IN
  /\ seatPc[p] = "commit"
  /\ seatsTaken' = [seatsTaken EXCEPT ![t] = seatReq[p].taken]
  /\ bStatus' = [bStatus EXCEPT ![b] = status]
  /\ bTransport' = [bTransport EXCEPT ![b] = t]
  /\ bSeats' = [bSeats EXCEPT ![b] = seatReq[p].seats]
  /\ outbox' = Append(outbox, [booking |-> b, transport |-> t, status |-> status,
                               seatsTaken |-> ReadBack(p)])
  /\ End(p)
  /\ UNCHANGED fleet

\* The process, its connection or its client goes away: rollback.
Crash(p) ==
  /\ seatPc[p] # "idle"
  /\ End(p)
  /\ UNCHANGED <<fleet, seatsTaken, bookingVars, outbox>>

-----------------------------------------------------------------------------
SeatsInit ==
  /\ fleet = {}
  /\ seatsTaken = [t \in Transports |-> 0]
  /\ bStatus = [b \in Bookings |-> "absent"]
  /\ bTransport = [b \in Bookings |-> None]
  /\ bSeats = [b \in Bookings |-> 0]
  /\ outbox = <<>>
  /\ seatPc = [p \in Procs |-> "idle"]
  /\ seatReq = [p \in Procs |-> NoReq]

\* Book refuses a number of seats that is not positive.
Book(p) == \E b \in Bookings, t \in Transports :
             \E n \in 1 .. capacity[t] : BookSeats(p, b, t, n)

SeatsNext ==
  \/ \E t \in Transports : Create(t)
  \/ \E p \in Procs :
       \/ Book(p)
       \/ \E b \in Bookings : CancelBooking(p, b)
       \/ Refund(p) \/ Commit(p) \/ Crash(p)

SeatsSpec == SeatsInit /\ [][SeatsNext]_seatVars

-----------------------------------------------------------------------------
(* Properties.                                                              *)

SeatLocals ==
  [kind : {"none", "book", "cancel"}, booking : Bookings \cup {None},
   transport : Transports \cup {None}, seats : Nat, taken : Nat]
SeatEvents ==
  [booking : Bookings, transport : Transports, status : {"booked", "cancelled"},
   seatsTaken : Nat]

\* Types; the count stays within what the CHECK of migration 000016 accepts, so no
\* transaction fails on it.
SeatsTypeOK ==
  /\ fleet \subseteq Transports
  /\ seatsTaken \in [Transports -> Nat]
  /\ \A t \in Transports : seatsTaken[t] <= capacity[t]
  /\ bStatus \in [Bookings -> {"absent", "booked", "cancelled"}]
  /\ bTransport \in [Bookings -> Transports \cup {None}]
  /\ bSeats \in [Bookings -> Nat]
  /\ outbox \in Seq(SeatEvents)
  /\ seatPc \in [Procs -> {"idle", "refund", "commit"}]
  /\ seatReq \in [Procs -> SeatLocals]

\* The seats held on a vehicle: each active booking's, numbered from 1.
SeatsOf(b) == {b} \X (1 .. bSeats[b])
Active(t) == {b \in Bookings : bStatus[b] = "booked" /\ bTransport[b] = t}
Held(t) == UNION {SeatsOf(b) : b \in Active(t)}

\* A vehicle's running total is the number of seats its active bookings hold, under any
\* mix of bookings and cancellations: no seat is refunded twice or lost, and the floor
\* of GREATEST is never what makes the number right.
SeatsExact == \A t \in Transports : seatsTaken[t] = Cardinality(Held(t))

\* The last event about a vehicle carries its current count, so a consumer that
\* follows the events in order knows the vehicle.
LastAnnounced ==
  \A i \in DOMAIN outbox :
    \/ outbox[i].seatsTaken = seatsTaken[outbox[i].transport]
    \/ \E j \in DOMAIN outbox : j > i /\ outbox[j].transport = outbox[i].transport

BookedOn == [b \in Bookings |-> IF bStatus[b] = "booked" THEN bTransport[b] ELSE None]

Ledger == INSTANCE CapacityLedger WITH
  Claims <- Bookings, Pools <- Transports, Capacity <- capacity, used <- seatsTaken,
  pool <- BookedOn, size <- bSeats

\* Booking implements the ledger: N seats at once or none, on one vehicle, given
\* back once.
ImplementsLedger == Ledger!Spec
=============================================================================

---------------------------- MODULE MeetingInvites -----------------------------
(***************************************************************************)
(* The meetings of one program: the coach proposes to move a lesson or to  *)
(* add an extra one, the student answers, and the accepted invite moves or *)
(* creates the booking.                                                    *)
(*                                                                         *)
(* A request is one call of a server action.  Its first step is the read   *)
(* with every check made on it, the second the write; only the write of a  *)
(* booking looks at the row again.  Time is counted in lessons: two        *)
(* bookings overlap when they start together.                              *)
(*                                                                         *)
(* Left out: the notes, mails and texts, the maximal lead of sixty days,   *)
(* the durations, and which of the parties calls (every action is offered  *)
(* to the party the code admits).                                          *)
(***************************************************************************)
EXTENDS Integers, FiniteSets

CONSTANTS
  Lessons,         \* the bookings the program came with
  Extras,          \* bound: the bookings that invites can add
  Invites,         \* bound: the invites that can be created
  Requests,        \* concurrent calls
  Horizon,         \* bound: the last time an invite may name
  None

Bookings == Lessons \cup Extras
Times == 0..Horizon

ASSUME InvitesAssumption ==
  Horizon \in Nat /\ Lessons \cap Extras = {} /\ None \notin Bookings \cup Invites

VARIABLES
  now,
  program,     \* Engagement.status
  booking,     \* the Booking rows
  invite,      \* the MeetingInvite rows
  request

inviteVars == <<now, program, booking, invite, request>>

BookingStatus == {"none", "SCHEDULED", "COMPLETED", "CANCELLED"}
InviteStatus == {"none", "PENDING", "ACCEPTED", "DECLINED", "CANCELLED", "EXPIRED"}

NoBooking == [status |-> "none", startsAt |-> 0]
NoInvite == [status |-> "none", booking |-> None, startsAt |-> 0]
NoRequest == [step |-> "idle", invite |-> None, booking |-> None, startsAt |-> 0]

InvitesInit ==
  /\ now = 0 /\ program = "ACTIVE"
  /\ booking \in [Bookings -> {NoBooking} \cup [status : {"SCHEDULED"}, startsAt : Times \ {0}]]
  /\ \A b \in Bookings : booking[b].status = "none" <=> b \in Extras
  /\ \A a, b \in Lessons : a # b => booking[a].startsAt # booking[b].startsAt
  /\ invite = [i \in Invites |-> NoInvite]
  /\ request = [r \in Requests |-> NoRequest]

Idle(r) == request[r].step = "idle"
Done(r) == request' = [request EXCEPT ![r] = NoRequest]
Become(r, step, i) == request' = [request EXCEPT ![r] = [NoRequest EXCEPT !.step = step, !.invite = i]]

taken(t, b) == \E a \in Bookings \ {b} : booking[a].status = "SCHEDULED" /\ booking[a].startsAt = t

-------------------------------------------------------------------------------
(* The coach proposes *)

\* inviteTimeProblem: not before the least lead from now.
inviteTimeProblem(t) == t <= now

\* The checks of createInvite, made outside its transaction.
ReadProgram(r, b, t) ==
  /\ Idle(r) /\ program = "ACTIVE"
  /\ ~inviteTimeProblem(t)
  /\ b # None => booking[b].status = "SCHEDULED" /\ booking[b].startsAt > now
  /\ ~taken(t, b)
  /\ request' = [request EXCEPT ![r] = [step |-> "create", invite |-> None, booking |-> b, startsAt |-> t]]
  /\ UNCHANGED <<now, program, booking, invite>>

unused == {i \in Invites : invite[i].status = "none"}

\* A newer proposal for the same lesson replaces the older one.
CreateInvite(r) ==
  /\ request[r].step = "create" /\ unused # {}
  /\ LET b == request[r].booking IN
     invite' = [k \in Invites |->
       IF k = CHOOSE i \in unused : TRUE THEN [status |-> "PENDING", booking |-> b, startsAt |-> request[r].startsAt]
       ELSE IF b # None /\ invite[k].booking = b /\ invite[k].status = "PENDING"
         THEN [invite[k] EXCEPT !.status = "CANCELLED"]
       ELSE invite[k]]
  /\ Done(r)
  /\ UNCHANGED <<now, program, booking>>

-------------------------------------------------------------------------------
(* The student answers, the coach withdraws *)

ReadInvite(r, i, accept) ==
  /\ Idle(r) /\ invite[i].status = "PENDING"
  /\ Become(r, IF invite[i].startsAt <= now THEN "expire" ELSE IF accept THEN "accept" ELSE "decline", i)
  /\ UNCHANGED <<now, program, booking, invite>>

ReadOwnInvite(r, i) ==
  /\ Idle(r) /\ invite[i].status = "PENDING"
  /\ Become(r, "cancel", i)
  /\ UNCHANGED <<now, program, booking, invite>>

\* Written whatever the invite has become since.
WriteStatus(r, step, status) ==
  /\ request[r].step = step
  /\ invite' = [invite EXCEPT ![request[r].invite].status = status]
  /\ Done(r)
  /\ UNCHANGED <<now, program, booking>>

ExpireInvite(r) == WriteStatus(r, "expire", "EXPIRED")
DeclineInvite(r) == WriteStatus(r, "decline", "DECLINED")
CancelInvite(r) == WriteStatus(r, "cancel", "CANCELLED")

\* Wrong: the lesson is moved whatever has become of it.
movableAnyway(b) == TRUE

\* What the update of the booking asks of the row.
movable(b) == booking[b].status = "SCHEDULED"

\* An extra meeting is a booking of its own.
target(i) ==
  IF invite[i].booking = None THEN {b \in Extras : booking[b].status = "none"}
  ELSE {b \in {invite[i].booking} : movable(b)}

\* Both writes or neither: none when the lesson may not be moved or the coach is taken (booking_no_overlap).
AcceptInvite(r) ==
  /\ request[r].step = "accept"
  /\ LET i == request[r].invite IN
     \/ \E b \in target(i) :
          /\ ~taken(invite[i].startsAt, b)
          /\ booking' = [booking EXCEPT ![b] = [status |-> "SCHEDULED", startsAt |-> invite[i].startsAt]]
          /\ invite' = [invite EXCEPT ![i].status = "ACCEPTED"]
     \/ /\ \A b \in target(i) : taken(invite[i].startsAt, b)
        /\ UNCHANGED <<booking, invite>>
  /\ Done(r)
  /\ UNCHANGED <<now, program>>

-------------------------------------------------------------------------------
(* Jobs and the rest of the program *)

ExpireInvites ==
  /\ \E i \in Invites : invite[i].status = "PENDING" /\ invite[i].startsAt <= now
  /\ invite' = [i \in Invites |->
       IF invite[i].status = "PENDING" /\ invite[i].startsAt <= now
       THEN [invite[i] EXCEPT !.status = "EXPIRED"] ELSE invite[i]]
  /\ UNCHANGED <<now, program, booking, request>>

\* The milestone of a lesson is released: by the worker once the lesson is over, by the student at any time.
CompleteLesson(b) ==
  /\ booking[b].status = "SCHEDULED" /\ b \in Lessons
  /\ booking' = [booking EXCEPT ![b].status = "COMPLETED"]
  /\ UNCHANGED <<now, program, invite, request>>

\* Every future meeting is cancelled with the program.
RefundProgram ==
  /\ program = "ACTIVE" /\ program' = "CANCELLED"
  /\ booking' = [b \in Bookings |->
       IF booking[b].status = "SCHEDULED" /\ booking[b].startsAt >= now
       THEN [booking[b] EXCEPT !.status = "CANCELLED"] ELSE booking[b]]
  /\ UNCHANGED <<now, invite, request>>

TimePasses ==
  /\ now < Horizon /\ now' = now + 1
  /\ UNCHANGED <<program, booking, invite, request>>

InvitesNext ==
  \/ \E r \in Requests :
       \/ \E b \in Bookings \cup {None}, t \in Times : ReadProgram(r, b, t)
       \/ \E i \in Invites : (\E accept \in BOOLEAN : ReadInvite(r, i, accept)) \/ ReadOwnInvite(r, i)
       \/ CreateInvite(r) \/ ExpireInvite(r) \/ DeclineInvite(r) \/ CancelInvite(r) \/ AcceptInvite(r)
  \/ ExpireInvites \/ RefundProgram \/ TimePasses
  \/ \E b \in Lessons : CompleteLesson(b)

InvitesSpec == InvitesInit /\ [][InvitesNext]_inviteVars

-------------------------------------------------------------------------------
(* Properties *)

InvitesTypeOK ==
  /\ now \in Times /\ program \in {"ACTIVE", "CANCELLED"}
  /\ booking \in [Bookings -> [status : BookingStatus, startsAt : Times]]
  /\ invite \in [Invites -> [status : InviteStatus, booking : Bookings \cup {None}, startsAt : Times]]
  /\ request \in [Requests -> [step : {"idle", "create", "accept", "decline", "expire", "cancel"},
                               invite : Invites \cup {None}, booking : Bookings \cup {None},
                               startsAt : Times]]

\* A lesson that was paid out or cancelled neither moves nor comes back, although the answer to an
\* invite was checked before the money moved.
ClosedLessonStaysPut ==
  [][\A b \in Bookings : booking[b].status \in {"COMPLETED", "CANCELLED"} => booking'[b] = booking[b]]_inviteVars

\* A proposal that was replaced or withdrawn is not accepted any more.
CancelledForGood ==
  [][\A i \in Invites : invite[i].status = "CANCELLED" => invite'[i].status # "ACCEPTED"]_inviteVars

===============================================================================

------------------------------ MODULE MeetingRoom ------------------------------
(***************************************************************************)
(* One party's meeting page, from the waiting screen into the call and     *)
(* back, and the other party coming and going in the room.                 *)
(*                                                                         *)
(* The page learns of the other party from two sources that disagree: the  *)
(* events of the running call, at once, and before and after it a poll of  *)
(* Daily's presence endpoint, which lags.  The clock ticks in poll         *)
(* intervals of 15 s; an answer that is still wanted arrives within one,   *)
(* since the server gives Daily ten seconds.                               *)
(*                                                                         *)
(* Daily is external: it admits whoever holds a token while the room is    *)
(* open, reports who comes and goes, and refuses a second frame on a page. *)
(***************************************************************************)
EXTENDS Integers

CONSTANTS
  Joins,        \* presses of the join button that can be under way together
  PRESENCE_LAG  \* in ticks: 30 s are 2

ASSUME RoomAssumption == PRESENCE_LAG \in Nat \ {0}

VARIABLES
  meetingState, \* joinState of a booking that is scheduled
  join,         \* how far each press of the button has come
  frame,        \* the call of callRef: none, opened, or joined
  screen,       \* the page's state
  knownAbsent,  \* ticks until knownAbsentUntil
  presencePoll, \* the poll under way
  there,        \* the other party is in the room
  lagging,      \* ticks for which the presence endpoint may still list them
  seenGone      \* ghost: the page saw the room without them, and they have not been back

roomVars == <<meetingState, join, frame, screen, knownAbsent, presencePoll, there, lagging, seenGone>>

Phase == {"idle", "connecting", "in-call", "left", "failed"}
live(s) == s.phase \in {"connecting", "in-call"}

RoomInit ==
  /\ meetingState \in {"TOO_EARLY", "OPEN"}
  /\ join = [j \in Joins |-> "idle"] /\ frame = "none"
  /\ screen = [phase |-> "idle", busy |-> FALSE, counterpartIn |-> FALSE, counterpartInCall |-> FALSE]
  /\ knownAbsent = 0 /\ presencePoll = "none"
  /\ there = FALSE /\ lagging = 0 /\ seenGone = FALSE

\* The effect that polls is torn down when the page goes live, and with it the answer under way.
pollUnder(s) == IF live(s) THEN "none" ELSE presencePoll

Show(s) == screen' = s /\ presencePoll' = pollUnder(s)

-------------------------------------------------------------------------------
(* The waiting screen *)

canPoll == ~live(screen) /\ meetingState = "OPEN"

StartPoll ==
  /\ canPoll /\ presencePoll = "none"
  /\ presencePoll' = "asked"
  /\ UNCHANGED <<meetingState, join, frame, screen, knownAbsent, there, lagging, seenGone>>

\* meetingPresence: quietly false whenever it cannot tell.
meetingPresence == {FALSE} \cup {meetingState = "OPEN" /\ (there \/ lagging > 0)}

AnswerPoll ==
  /\ presencePoll = "asked"
  /\ \E present \in meetingPresence : presencePoll' = IF present THEN "present" ELSE "absent"
  /\ UNCHANGED <<meetingState, join, frame, screen, knownAbsent, there, lagging, seenGone>>

\* Wrong: the endpoint is believed although they were seen leaving.
believed == presencePoll = "present"

notRefuted == presencePoll = "present" /\ knownAbsent = 0

ShowPoll ==
  /\ presencePoll \in {"present", "absent"}
  /\ screen' = [screen EXCEPT !.counterpartIn = notRefuted]
  /\ presencePoll' = "none"
  /\ UNCHANGED <<meetingState, join, frame, knownAbsent, there, lagging, seenGone>>

-------------------------------------------------------------------------------
(* Joining *)

\* The button is dead while the server is asked, but not while the library is loaded after that.
PressJoin(j) ==
  /\ join[j] = "idle" /\ ~live(screen) /\ ~screen.busy /\ meetingState = "OPEN"
  /\ join' = [join EXCEPT ![j] = "asking"]
  /\ frame' = "none"
  /\ Show([screen EXCEPT !.busy = TRUE, !.counterpartIn = FALSE])
  /\ UNCHANGED <<meetingState, knownAbsent, there, lagging, seenGone>>

\* joinMeeting: refused outside the window or without Daily.
AnswerJoin(j, ok) ==
  /\ join[j] = "asking" /\ (ok => meetingState = "OPEN")
  /\ join' = [join EXCEPT ![j] = IF ok THEN "importing" ELSE "idle"]
  /\ Show(IF ok THEN [screen EXCEPT !.busy = FALSE] ELSE [screen EXCEPT !.busy = FALSE, !.phase = "failed"])
  /\ UNCHANGED <<meetingState, frame, knownAbsent, there, lagging, seenGone>>

\* The frame is created; a page has one at most.
Connect(j) ==
  /\ join[j] = "importing"
  /\ join' = [join EXCEPT ![j] = "idle"]
  /\ IF frame = "none"
     THEN frame' = "opened" /\ Show([screen EXCEPT !.phase = "connecting", !.counterpartInCall = FALSE])
     ELSE UNCHANGED frame /\ Show([screen EXCEPT !.phase = "connecting"])
  /\ UNCHANGED <<meetingState, knownAbsent, there, lagging, seenGone>>

UnsupportedBrowser(j) ==
  /\ join[j] = "importing"
  /\ join' = [join EXCEPT ![j] = "idle"]
  /\ Show([screen EXCEPT !.phase = "failed"])
  /\ UNCHANGED <<meetingState, frame, knownAbsent, there, lagging, seenGone>>

-------------------------------------------------------------------------------
(* The call *)

counted(s, others) == [s EXCEPT !.counterpartIn = others, !.counterpartInCall = others]
absentAfter(others) == IF others THEN knownAbsent ELSE PRESENCE_LAG

\* joined-meeting, participant-joined and participant-left: countOthers.
Joined ==
  /\ frame = "opened" /\ frame' = "joined"
  /\ Show(counted([screen EXCEPT !.phase = "in-call"], there))
  /\ knownAbsent' = absentAfter(there) /\ seenGone' = ~there
  /\ UNCHANGED <<meetingState, join, there, lagging>>

OtherComesOrGoes ==
  /\ there => lagging = 0
  /\ ~there => meetingState = "OPEN"
  /\ there' = ~there /\ lagging' = IF there THEN PRESENCE_LAG ELSE 0
  /\ IF frame = "joined"
     THEN /\ Show(counted(screen, ~there)) /\ knownAbsent' = absentAfter(~there)
          /\ seenGone' = there
     ELSE /\ UNCHANGED <<screen, presencePoll, knownAbsent>>
          /\ seenGone' = (there /\ seenGone)
  /\ UNCHANGED <<meetingState, join, frame>>

\* left-meeting: by the button, or because the room closes.
Left ==
  /\ frame # "none"
  /\ knownAbsent' = IF screen.counterpartInCall THEN knownAbsent ELSE PRESENCE_LAG
  /\ frame' = "none"
  /\ Show([screen EXCEPT !.counterpartIn = FALSE, !.phase = IF @ = "failed" THEN @ ELSE "left"])
  /\ UNCHANGED <<meetingState, join, there, lagging, seenGone>>

CallFails ==
  /\ frame # "none"
  /\ frame' = "none"
  /\ Show([screen EXCEPT !.counterpartIn = FALSE, !.phase = "failed"])
  /\ UNCHANGED <<meetingState, join, knownAbsent, there, lagging, seenGone>>

Less(n) == IF n = 0 THEN 0 ELSE n - 1

Tick15s ==
  /\ presencePoll = "none"
  /\ \/ meetingState' = meetingState
     \/ meetingState = "TOO_EARLY" /\ meetingState' = "OPEN"
     \/ meetingState = "OPEN" /\ meetingState' = "ENDED"
  /\ knownAbsent' = Less(knownAbsent) /\ lagging' = Less(lagging)
  /\ UNCHANGED <<join, frame, screen, presencePoll, there, seenGone>>

RoomNext ==
  \/ StartPoll \/ AnswerPoll \/ ShowPoll
  \/ \E j \in Joins : \/ PressJoin(j) \/ (\E ok \in BOOLEAN : AnswerJoin(j, ok))
                      \/ Connect(j) \/ UnsupportedBrowser(j)
  \/ Joined \/ OtherComesOrGoes \/ Left \/ CallFails
  \/ Tick15s

RoomSpec == RoomInit /\ [][RoomNext]_roomVars

-------------------------------------------------------------------------------
(* Properties *)

saysWaiting == ~live(screen) /\ meetingState = "OPEN" /\ screen.counterpartIn

\* The page never says that the other party is in the room and waiting when it has seen the room
\* without them and they have not come back, although the presence endpoint goes on listing them.
NoStaleWelcome == saysWaiting => ~seenGone

\* A call that the page has opened is on its screen.
NoHiddenCall == frame # "none" => live(screen)
===============================================================================

-------------------------------- MODULE Reviews --------------------------------
(***************************************************************************)
(* Reviews of one coach: who may write one, and the running average the    *)
(* matching engine and the profile read.                                   *)
(*                                                                         *)
(* Eligibility is read before the transaction.  The transaction takes the  *)
(* coach's advisory lock and then reads and writes in separate statements; *)
(* what it wrote is seen by others once it commits, and a process that     *)
(* dies has written nothing.  The average is kept as an exact fraction.    *)
(***************************************************************************)
EXTENDS Naturals, FiniteSets, Functions

CONSTANTS
  Programs,   \* engagements of the coach
  Panels,     \* review panels on screen, one student's possibly in two tabs
  programOf,  \* the program each is about
  Ratings,    \* 1 .. 5
  NoReview

ASSUME ReviewsAssumption ==
  /\ IsFiniteSet(Programs) /\ Ratings \subseteq Nat /\ programOf \in [Panels -> Programs]
  /\ NoReview \notin [rating : Ratings, programIncomplete : BOOLEAN]

VARIABLES
  engagement,    \* per engagement: its status, and whether a lesson was paid out or a dispute decided
  review,     \* per engagement: the Review row
  rating,     \* CoachProfile: ratingAvg as num / den, and ratingCount
  panel       \* per panel: the button, and the call under way with what it has read

reviewsVars == <<engagement, review, rating, panel>>

NoSubmission == [at |-> "none", stars |-> 0, label |-> "none", avg |-> [num |-> 0, den |-> 1], count |-> 0]

ReviewsInit ==
  /\ engagement = [e \in Programs |-> [status |-> "ACTIVE", happened |-> FALSE]]
  /\ review = [e \in Programs |-> NoReview]
  /\ rating = [avg |-> [num |-> 0, den |-> 1], count |-> 0]
  /\ panel = [p \in Panels |-> [done |-> FALSE, call |-> NoSubmission]]

\* A finished engagement, or one cut short in which something happened.
reviewEligibility(e) ==
  CASE engagement[e].status = "COMPLETED" -> "COMPLETE"
    [] engagement[e].status = "CANCELLED" /\ engagement[e].happened -> "INCOMPLETE"
    [] OTHER -> "none"

\* The rest of the system: lessons are paid out and disputes decided.  Only completing asks what the
\* status is; a freeze, a decision for the coach and a refund write theirs whatever it was.
ProgramMoves(e) ==
  /\ \/ engagement' = [engagement EXCEPT ![e].happened = TRUE]
     \/ engagement[e].status = "ACTIVE" /\ engagement' = [engagement EXCEPT ![e].status = "COMPLETED"]
     \/ \E s \in {"DISPUTED", "ACTIVE", "CANCELLED"} : engagement' = [engagement EXCEPT ![e].status = s]
  /\ UNCHANGED <<review, rating, panel>>

CallAt(p, at) == panel[p].call.at = at
Go(p, c) == panel' = [panel EXCEPT ![p].call = c]

\* The panel shows for a program that may be reviewed, and its button is dead while a call is under way.
PressStars(p, n) ==
  /\ reviewEligibility(programOf[p]) # "none" /\ ~panel[p].done /\ CallAt(p, "none")
  /\ Go(p, [NoSubmission EXCEPT !.at = "read", !.stars = n])
  /\ UNCHANGED <<engagement, review, rating>>

readEligibility(p) ==
  LET e == programOf[p]
  IN  /\ CallAt(p, "read")
      /\ Go(p, IF reviewEligibility(e) = "none" \/ review[e] # NoReview THEN [NoSubmission EXCEPT !.at = "refused"]
               ELSE [panel[p].call EXCEPT !.at = "lock", !.label = reviewEligibility(e)])
      /\ UNCHANGED <<engagement, review, rating>>

\* Wrong: the lock is one of the engagement's.
lockOfProgram(p) == programOf[p]

\* review:coach:<id>; there is one coach here.
lockKey(p) == "review:coach"

holdsLock(p) == panel[p].call.at \in {"insert", "average", "write"}

acquireLock(p) ==
  /\ CallAt(p, "lock")
  /\ \A q \in Panels : lockKey(q) = lockKey(p) => ~holdsLock(q)
  /\ Go(p, [panel[p].call EXCEPT !.at = "insert"])
  /\ UNCHANGED <<engagement, review, rating>>

\* The unique index refuses a second review of the engagement, once the first is committed.
createReview(p) ==
  /\ CallAt(p, "insert")
  /\ \A q \in Panels \ {p} : programOf[q] = programOf[p] => panel[q].call.at \notin {"average", "write"}
  /\ Go(p, IF review[programOf[p]] # NoReview THEN [NoSubmission EXCEPT !.at = "refused"]
           ELSE [panel[p].call EXCEPT !.at = "average"])
  /\ UNCHANGED <<engagement, review, rating>>

readCoach(p) ==
  /\ CallAt(p, "average")
  /\ Go(p, [panel[p].call EXCEPT !.at = "write", !.avg = rating.avg, !.count = rating.count])
  /\ UNCHANGED <<engagement, review, rating>>

\* ( ratingAvg * ratingCount + rating ) / ( ratingCount + 1 ), and the commit.
writeAverage(p) ==
  LET c == panel[p].call
  IN  /\ CallAt(p, "write")
      /\ rating' = [avg |-> [num |-> c.avg.num * c.count + c.stars * c.avg.den, den |-> c.avg.den * (c.count + 1)],
                    count |-> c.count + 1]
      /\ review' = [review EXCEPT ![programOf[p]] = [rating |-> c.stars, programIncomplete |-> c.label = "INCOMPLETE"]]
      /\ Go(p, [NoSubmission EXCEPT !.at = "ok"])
      /\ UNCHANGED engagement

\* An answer that is lost leaves the button dead until the page is loaded again.
ReviewAnswered(p) ==
  /\ CallAt(p, "ok") \/ CallAt(p, "refused")
  /\ panel' = [panel EXCEPT ![p] = [done |-> CallAt(p, "ok"), call |-> NoSubmission]]
  /\ UNCHANGED <<engagement, review, rating>>

ReloadPanel(p) ==
  /\ panel[p].call.at \in {"none", "ok", "refused", "lost"}
  /\ panel' = [panel EXCEPT ![p] = [done |-> review[programOf[p]] # NoReview, call |-> NoSubmission]]
  /\ UNCHANGED <<engagement, review, rating>>

ReviewLost(p) ==
  /\ panel[p].call.at \notin {"none", "lost"} /\ Go(p, [NoSubmission EXCEPT !.at = "lost"])
  /\ UNCHANGED <<engagement, review, rating>>

ReviewsNext ==
  \/ \E e \in Programs : ProgramMoves(e)
  \/ \E p \in Panels :
       \/ \E n \in Ratings : PressStars(p, n)
       \/ readEligibility(p) \/ acquireLock(p) \/ createReview(p) \/ readCoach(p) \/ writeAverage(p)
       \/ ReviewAnswered(p) \/ ReloadPanel(p) \/ ReviewLost(p)

ReviewsSpec == ReviewsInit /\ [][ReviewsNext]_reviewsVars

-------------------------------------------------------------------------------
(* Properties *)

Reviewed == {e \in Programs : review[e] # NoReview}
ratings == [e \in Reviewed |-> review[e].rating]

\* The average everyone reads is the mean of the reviews there are, however their submissions overlap or
\* die, and whatever becomes of their programs meanwhile.
RatingIsTheMean ==
  /\ rating.count = Cardinality(Reviewed)
  /\ rating.avg.den > 0 /\ rating.avg.num * rating.count = rating.avg.den * SumFunctionOnSet(ratings, Reviewed)

\* What is not kept: a completed program can still be frozen and refunded, after it was reviewed or
\* between the read of its eligibility and the write.
LabelTellsTheEnd == \A e \in Reviewed : review[e].programIncomplete = (engagement[e].status # "COMPLETED")
===============================================================================

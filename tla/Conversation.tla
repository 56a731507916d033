----------------------------- MODULE Conversation -----------------------------
(***************************************************************************)
(* Messages between a student and a coach: the boxes they type in, the     *)
(* moderation of what they send, and the risk the conversation collects.   *)
(*                                                                         *)
(* A message is the set of detectors it sets off.  A call of sendMessage   *)
(* reads the conversation first and writes it later, so two of them may    *)
(* overlap; either may be lost on the way back.                            *)
(***************************************************************************)
EXTENDS Integers, FiniteSets, Functions

CONSTANTS
  Boxes,       \* the pages from which the two parties write
  Texts,       \* what they write: sets of detectors
  MaxMessages, \* bound: messages stored
  MaxRisk,     \* bound: risk found in them
  NoText

THRESHOLDS == [mask |-> 25, block |-> 70, flagConversation |-> 150]

VARIABLES
  box,          \* per page: what stands in the box, and the call under way
  conversation, \* the row: riskScore and flaggedAt
  thread,       \* the messages stored: text, and whether masked
  found         \* ghost: the risk of everything ever sent, refused or not

conversationVars == <<box, conversation, thread, found>>

ConversationInit ==
  /\ box = [b \in Boxes |-> [body |-> NoText, call |-> "none", sending |-> NoText, prior |-> 0, answer |-> "none"]]
  /\ conversation = [riskScore |-> 0, flaggedAt |-> FALSE]
  /\ thread = {} /\ found = 0

-------------------------------------------------------------------------------
(* Moderation *)

\* What each detector finds, and how much it weighs.
DETECTORS ==
  [tr_mobile |-> [kind |-> "PHONE_NUMBER", severity |-> 45],
   long_digit_run |-> [kind |-> "PHONE_NUMBER", severity |-> 25],
   iban_tr |-> [kind |-> "IBAN", severity |-> 60],
   email |-> [kind |-> "EMAIL", severity |-> 40],
   messaging_shortlink |-> [kind |-> "SOCIAL_HANDLE", severity |-> 55],
   platform_name |-> [kind |-> "SOCIAL_HANDLE", severity |-> 30],
   handle_token |-> [kind |-> "SOCIAL_HANDLE", severity |-> 35],
   external_link |-> [kind |-> "EXTERNAL_LINK", severity |-> 30],
   platform_abbreviation |-> [kind |-> "SOCIAL_HANDLE", severity |-> 30],
   payment_vocabulary |-> [kind |-> "PAYMENT_KEYWORD", severity |-> 40],
   circumvention_intent |-> [kind |-> "CIRCUMVENTION_INTENT", severity |-> 50]]

\* A text is known by the detectors it sets off.
ASSUME ConversationAssumption == Texts \subseteq SUBSET DOMAIN DETECTORS

kinds(text) == {DETECTORS[d].kind : d \in text}
severity == [d \in DOMAIN DETECTORS |-> DETECTORS[d].severity]
severities(text) == SumFunctionOnSet(severity, text)

\* Every detector counts once; some combinations are worse than their parts.
riskOf(text) ==
  LET intent == "CIRCUMVENTION_INTENT" \in kinds(text) /\ Cardinality(kinds(text)) > 1
      weighed == IF intent THEN (severities(text) * 3 + 1) \div 2 ELSE severities(text)
  IN  weighed + (IF {"PAYMENT_KEYWORD", "IBAN"} \subseteq kinds(text) THEN 30 ELSE 0)

\* Repeat offenders are answered more severely.
escalated(text, priorRisk) == riskOf(text) + (IF priorRisk >= THRESHOLDS.flagConversation THEN 20 ELSE 0)

action(text, priorRisk) ==
  CASE escalated(text, priorRisk) >= THRESHOLDS.block -> "BLOCK"
    [] escalated(text, priorRisk) \in THRESHOLDS.mask .. THRESHOLDS.block - 1 -> "MASK"
    [] OTHER -> "ALLOW"

\* Wrong: what the conversation is charged includes the escalation.
escalatedMessage(text, priorRisk) ==
  [action |-> action(text, priorRisk), riskScore |-> escalated(text, priorRisk)]

\* The escalation decides about the message and is not charged to the conversation.
moderateMessage(text, priorRisk) == [action |-> action(text, priorRisk), riskScore |-> riskOf(text)]

-------------------------------------------------------------------------------
(* The page *)

TypeMessage(b, text) ==
  /\ box[b].body # text /\ box' = [box EXCEPT ![b].body = text]
  /\ UNCHANGED <<conversation, thread, found>>

\* The box stays editable while its message is under way.
PressGonder(b) ==
  /\ box[b].body # NoText /\ box[b].call = "none"
  /\ box' = [box EXCEPT ![b].call = "asked", ![b].sending = box[b].body]
  /\ UNCHANGED <<conversation, thread, found>>

\* A message that went out empties the box, one that was refused is left in it.
MessageAnswered(b) ==
  /\ box[b].call = "answered"
  /\ box' = [box EXCEPT ![b].call = "none", ![b].sending = NoText, ![b].answer = "none",
                        ![b].body = IF box[b].answer = "sent" THEN NoText ELSE @]
  /\ UNCHANGED <<conversation, thread, found>>

AnswerLost(b) ==
  /\ box[b].call = "answered"
  /\ box' = [box EXCEPT ![b].call = "none", ![b].sending = NoText, ![b].answer = "none"]
  /\ UNCHANGED <<conversation, thread, found>>

-------------------------------------------------------------------------------
(* sendMessage *)

\* requireParty reads the risk there is; the limit on the sender's rate comes after it.
requireParty(b) ==
  /\ box[b].call = "asked"
  /\ \/ box' = [box EXCEPT ![b].call = "moderate", ![b].prior = conversation.riskScore]
     \/ box' = [box EXCEPT ![b].call = "answered", ![b].answer = "too fast"]
  /\ UNCHANGED <<conversation, thread, found>>

answer(b, result) == box' = [box EXCEPT ![b].call = "answered", ![b].answer = result, ![b].prior = 0]

flagged(risk) == conversation.flaggedAt \/ risk >= THRESHOLDS.flagConversation

\* A refusal adds to the risk there is; the flag goes by the risk that was read.
RefuseMessage(b) ==
  LET verdict == moderateMessage(box[b].sending, box[b].prior)
  IN  /\ box[b].call = "moderate" /\ verdict.action = "BLOCK"
      /\ conversation' = [riskScore |-> conversation.riskScore + verdict.riskScore,
                          flaggedAt |-> flagged(box[b].prior + verdict.riskScore)]
      /\ found' = found + riskOf(box[b].sending) /\ found' <= MaxRisk
      /\ answer(b, "refused") /\ UNCHANGED thread

\* A message that goes out replaces the risk by what was read and its own.
StoreMessage(b) ==
  LET verdict == moderateMessage(box[b].sending, box[b].prior)
      newRisk == box[b].prior + verdict.riskScore
  IN  /\ box[b].call = "moderate" /\ verdict.action # "BLOCK"
      /\ Cardinality(thread) < MaxMessages
      /\ thread' = thread \cup {[place |-> Cardinality(thread), text |-> box[b].sending,
                                 masked |-> verdict.action = "MASK"]}
      /\ conversation' = [riskScore |-> newRisk, flaggedAt |-> flagged(newRisk)]
      /\ found' = found + riskOf(box[b].sending) /\ found' <= MaxRisk
      /\ answer(b, "sent")

ConversationNext ==
  \E b \in Boxes :
    \/ \E text \in Texts : TypeMessage(b, text)
    \/ PressGonder(b) \/ MessageAnswered(b) \/ AnswerLost(b)
    \/ requireParty(b) \/ RefuseMessage(b) \/ StoreMessage(b)

ConversationSpec == ConversationInit /\ [][ConversationNext]_conversationVars

-------------------------------------------------------------------------------
(* Properties *)

\* However the calls overlap, a conversation is not flagged for review, nor is a message refused as a
\* repeat offender's, unless what was found in its messages adds up to the threshold.
FlagIsEarned ==
  /\ conversation.flaggedAt => found >= THRESHOLDS.flagConversation
  /\ \A b \in Boxes : (box[b].answer = "refused" /\ riskOf(box[b].sending) < THRESHOLDS.block) =>
                       found >= THRESHOLDS.flagConversation
  /\ conversation.riskScore <= found

\* What the conversation is charged is never taken back.
RiskNeverFalls == [][conversation'.riskScore >= conversation.riskScore]_conversationVars

\* A text that was typed is in the box until it is in the thread.
TypingIsKept ==
  [][\A b \in Boxes : (box[b].body # NoText /\ box'[b].body = NoText) =>
       \E x \in thread : x.text = box[b].body]_conversationVars
===============================================================================

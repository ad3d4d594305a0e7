------------------------------ MODULE MCSends ------------------------------
(***************************************************************************)
(* The way of a prompt in one run: the endpoints with their adapters, the  *)
(* sends of one provider, and the extraction of an answer.  They share no  *)
(* state: the first state chooses the part that moves, and the others stay *)
(* in their initial states (as in MCServices).                             *)
(***************************************************************************)
EXTENDS ProviderSend, Gateway

CONSTANTS w3, w4, Nothing, Junk, Screen, MaxFrames, MinBody

VARIABLES
  part,
  sent, over, transport, got, half, bodied, hooked, waiting, extracted, reasoning, whole

(* A label, a word that may be reasoning or content, and one of content.   *)
Word == {w3, w4}
Frame == {[r |-> w3, c |-> Nothing], [r |-> Nothing, c |-> w3], [r |-> Nothing, c |-> w4],
          [r |-> Nothing, c |-> Nothing]}

Texts == INSTANCE AnswerText WITH phase <- waiting

Parts == {"sends", "chats", "answers"}

TextsStill ==
  UNCHANGED <<sent, over, transport, got, half, bodied, hooked, waiting, extracted, reasoning,
              whole>>

Moving(p) ==
  /\ part = p /\ part' = p
  /\ IF p = "sends" THEN TRUE ELSE UNCHANGED vars
  /\ IF p = "chats" THEN TRUE ELSE UNCHANGED gatewayVars
  /\ IF p = "answers" THEN TRUE ELSE TextsStill

SendsInit ==
  /\ part \in Parts
  /\ Init
  /\ GatewayInit
  /\ Texts!AnswerInit /\ (part # "answers" => transport = "chunks")

SendsNext ==
  \/ Moving("sends") /\ Next
  \/ Moving("chats") /\ GatewayNext
  \/ Moving("answers") /\ Texts!AnswerNext

sendsVars == <<part, vars, gatewayVars, Texts!answerVars>>

(* Of the sends alone: every await ends (ProviderSend).                    *)
SendsSpec ==
  /\ SendsInit /\ [][SendsNext]_sendsVars
  /\ \A r \in Adapter : WF_sendsVars(Moving("sends") /\ Work(r))

(* The content of the stream is the answer (AnswerText).                   *)
AnswerIsTheContent == Texts!AnswerIsTheContent
=============================================================================

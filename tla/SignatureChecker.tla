--------------------------- MODULE SignatureChecker ---------------------------
(***************************************************************************)
(* The concurrent signature checker of                                     *)
(* core/bin/zksync_api/src/signature_checker.rs.                           *)
(*                                                                         *)
(* API handlers send VerifySignatureRequest values into an mpsc channel.   *)
(* checker_routine takes them off in order and tokio::spawns one task per  *)
(* request; the task runs VerifiedTx::verify (verify_eth_signature, then   *)
(* verify_tx_correctness) and sends the result on the request's oneshot    *)
(* channel, ignoring a failed send.  The task's work is a sequence of      *)
(* stages, each one check of the code; a stage that awaits the Ethereum    *)
(* node or the database may never return, and one whose result is         *)
(* .expect()ed or .unwrap()ed panics the task when the call fails, which   *)
(* drops the oneshot sender.                                               *)
(***************************************************************************)
EXTENDS Naturals, Sequences, FiniteSets

CONSTANTS
  Requests,      \* verification requests (model values)
  Shapes,        \* the request shapes the API may send (see RequestShape)
  HungRequests   \* requests whose external calls may never return

ASSUME HungRequests \subseteq Requests

(* RequestData and the parts of it that choose the checks: the kind of    *)
(* request; for a single transaction its kind (a ChangePubKey without an  *)
(* Ethereum signature counts as "ChangePubKeyOnchain"); the form of the   *)
(* Ethereum signature, if any.                                            *)
RequestShape ==
  [kind : {"Tx"}, tx : {"ChangeGroup", "ChangePubKeyOnchain", "Other"},
   ethSig : {"None", "ECDSA", "EIP1271"}]
    \cup [kind : {"Order", "Toggle2FA"}, tx : {"Other"}, ethSig : {"ECDSA", "EIP1271"}]
    \cup [kind : {"Batch"}, tx : {"Other"}, ethSig : {"None"}]

ASSUME Shapes \subseteq RequestShape

(* A stage: the check it performs, whether it awaits an external call,    *)
(* and what it can produce: "pass", an error variant, or "panic".         *)
Stage(name, async, outcomes) == [name |-> name, async |-> async, outcomes |-> outcomes]

(* verify_ethereum_signature: ECDSA recovery is local; an EIP-1271        *)
(* signature is checked by a contract call whose failure is .expect()ed.  *)
EthSigStage(d) ==
  IF d.ethSig = "ECDSA"
  THEN Stage("EthSignature", FALSE, {"pass", "IncorrectEthSignature"})
  ELSE Stage("EthSignature", TRUE, {"pass", "IncorrectEthSignature", "panic"})

(* Mutant: the ChangeGroup whitelist query is left out. *)
EthStagesNoGroupAuth(d) ==
  CASE d.kind = "Tx" ->
         (IF d.tx = "ChangePubKeyOnchain"
          THEN <<Stage("PubKeyAuthorized", TRUE, {"pass", "ChangePkNotAuthorized", "panic"})>>
          ELSE <<>>)
         \o (IF d.ethSig # "None" THEN <<EthSigStage(d)>> ELSE <<>>)
    [] d.kind \in {"Order", "Toggle2FA"} -> <<EthSigStage(d)>>
    [] d.kind = "Batch" ->
         <<Stage("BatchEthSignature", TRUE, {"pass", "Other", "IncorrectEthSignature", "panic"})>>

(* verify_eth_signature for one request: verify_eth_signature_single_tx  *)
(* for a Tx (onchain ChangePubKey authorisation, ChangeGroup whitelist,   *)
(* then eth_sign_data); the whole Batch arm as one stage (its result is   *)
(* the verdict modelled in BatchSignature); verify_ethereum_signature for *)
(* an Order or a Toggle2FA request.                                       *)
EthStages(d) ==
  CASE d.kind = "Tx" ->
         (IF d.tx = "ChangePubKeyOnchain"
          THEN <<Stage("PubKeyAuthorized", TRUE, {"pass", "ChangePkNotAuthorized", "panic"})>>
          ELSE <<>>)
         \o (IF d.tx = "ChangeGroup"
             THEN <<Stage("GroupAuthorized", TRUE, {"pass", "UserNotWhitelisted", "panic"})>>
             ELSE <<>>)
         \o (IF d.ethSig # "None" THEN <<EthSigStage(d)>> ELSE <<>>)
    [] d.kind \in {"Order", "Toggle2FA"} -> <<EthSigStage(d)>>
    [] d.kind = "Batch" ->
         <<Stage("BatchEthSignature", TRUE, {"pass", "Other", "IncorrectEthSignature", "panic"})>>

(* verify_tx_correctness: a database connection and two                   *)
(* is_account_autorised queries, all .unwrap()ed, then check_correctness  *)
(* (for a batch the queries and the check repeat per transaction).        *)
CorrectnessStages(d) ==
  CASE d.kind \in {"Tx", "Batch"} ->
         <<Stage("Connect", TRUE, {"pass", "panic"}),
           Stage("SenderAuthorisation", TRUE, {"pass", "panic"}),
           Stage("ReceiverAuthorisation", TRUE, {"pass", "panic"}),
           Stage("CheckCorrectness", FALSE, {"pass", "IncorrectTx"})>>
    [] d.kind = "Order" -> <<Stage("CheckCorrectness", FALSE, {"pass", "IncorrectTx"})>>
    [] d.kind = "Toggle2FA" -> <<>>

(* VerifiedTx::verify *)
Stages(d) == EthStages(d) \o CorrectnessStages(d)

VARIABLES
  data,      \* the RequestData of every request
  channel,   \* the mpsc channel into checker_routine
  pc,        \* "unsent", "queued", "running", "finished" or "panicked"
  stage,     \* index of the next stage of a running task
  passed,    \* names of the stages a task has passed
  response,  \* what the oneshot receiver holds: "none", "Ok", an error, "canceled"
  listening  \* the requester still holds the oneshot receiver

vars == <<data, channel, pc, stage, passed, response, listening>>

Init ==
  /\ data \in [Requests -> Shapes]
  /\ channel = <<>>
  /\ pc = [r \in Requests |-> "unsent"]
  /\ stage = [r \in Requests |-> 1]
  /\ passed = [r \in Requests |-> {}]
  /\ response = [r \in Requests |-> "none"]
  /\ listening = [r \in Requests |-> TRUE]

(* An API handler sends the request into the channel. *)
Submit(r) ==
  /\ pc[r] = "unsent"
  /\ channel' = Append(channel, r)
  /\ pc' = [pc EXCEPT ![r] = "queued"]
  /\ UNCHANGED <<data, stage, passed, response, listening>>

(* Mutant: checker_routine awaits the running task before taking the    *)
(* next request.                                                          *)
DispatchAwaiting ==
  /\ channel # <<>>
  /\ \A q \in Requests : pc[q] # "running"
  /\ pc' = [pc EXCEPT ![Head(channel)] = "running"]
  /\ channel' = Tail(channel)
  /\ UNCHANGED <<data, stage, passed, response, listening>>

(* checker_routine: input.next().await, then tokio::spawn the task. *)
Dispatch ==
  /\ channel # <<>>
  /\ pc' = [pc EXCEPT ![Head(channel)] = "running"]
  /\ channel' = Tail(channel)
  /\ UNCHANGED <<data, stage, passed, response, listening>>

(* response.send(resp).unwrap_or_default(): the value reaches the         *)
(* receiver if it is still held, and is dropped silently otherwise.       *)
Send(r, resp) ==
  response' = [response EXCEPT ![r] = IF listening[r] THEN resp ELSE "none"]

(* The task runs its next stage with outcome o.  Passing the last stage  *)
(* sends Ok(VerifiedTx); an error returns early through `?` and is sent;  *)
(* a panic ends the task, dropping the oneshot sender.                    *)
RunStage(r, o) ==
  LET st == Stages(data[r]) IN
  /\ pc[r] = "running"
  /\ o \in st[stage[r]].outcomes
  /\ CASE o = "pass" ->
            /\ passed' = [passed EXCEPT ![r] = @ \cup {st[stage[r]].name}]
            /\ IF stage[r] = Len(st)
               THEN /\ pc' = [pc EXCEPT ![r] = "finished"]
                    /\ Send(r, "Ok")
                    /\ UNCHANGED stage
               ELSE /\ stage' = [stage EXCEPT ![r] = @ + 1]
                    /\ UNCHANGED <<pc, response>>
       [] o = "panic" ->
            /\ pc' = [pc EXCEPT ![r] = "panicked"]
            /\ response' = [response EXCEPT ![r] = IF listening[r] THEN "canceled" ELSE "none"]
            /\ UNCHANGED <<stage, passed>>
       [] OTHER ->
            /\ pc' = [pc EXCEPT ![r] = "finished"]
            /\ Send(r, o)
            /\ UNCHANGED <<stage, passed>>
  /\ UNCHANGED <<data, channel, listening>>

(* Every shape has at least one stage (a Toggle2FA request has only its *)
(* Ethereum signature check).                                             *)
ASSUME \A d \in Shapes : Len(Stages(d)) >= 1

(* The requester stops waiting and drops the receiver. *)
DropReceiver(r) ==
  /\ listening[r] /\ response[r] = "none"
  /\ listening' = [listening EXCEPT ![r] = FALSE]
  /\ UNCHANGED <<data, channel, pc, stage, passed, response>>

IsAsync(r) == Stages(data[r])[stage[r]].async

Next ==
  \/ \E r \in Requests : Submit(r)
  \/ Dispatch
  \/ \E r \in Requests, o \in {"pass", "panic", "IncorrectEthSignature",
                               "ChangePkNotAuthorized", "UserNotWhitelisted",
                               "Other", "IncorrectTx"} : RunStage(r, o)
  \/ \E r \in Requests : DropReceiver(r)

(* The tokio runtime runs the dispatcher and every ready task; a stage   *)
(* that awaits an external call finishes only if the call returns, which *)
(* is assumed for every request outside HungRequests.                    *)
TaskStep(r) == \E o \in Stages(data[r])[stage[r]].outcomes : RunStage(r, o)

Fairness ==
  /\ WF_vars(Dispatch)
  /\ \A r \in Requests :
       WF_vars(pc[r] = "running" /\ ~IsAsync(r) /\ TaskStep(r))
  /\ \A r \in Requests \ HungRequests :
       WF_vars(pc[r] = "running" /\ IsAsync(r) /\ TaskStep(r))

Spec == Init /\ [][Next]_vars /\ Fairness

-----------------------------------------------------------------------------
(* Properties *)

StageNames == {"PubKeyAuthorized", "GroupAuthorized", "EthSignature", "BatchEthSignature",
               "Connect", "SenderAuthorisation", "ReceiverAuthorisation", "CheckCorrectness"}

Outcomes == {"none", "Ok", "canceled", "IncorrectEthSignature",
             "ChangePkNotAuthorized", "UserNotWhitelisted", "Other", "IncorrectTx"}

(* Every task is in one of the states of checker_routine's life cycle,    *)
(* and a requester holds either nothing yet or one of the results.        *)
TypeOK ==
  /\ data \in [Requests -> Shapes]
  /\ channel \in Seq(Requests)
  /\ pc \in [Requests -> {"unsent", "queued", "running", "finished", "panicked"}]
  /\ stage \in [Requests -> Nat \ {0}]
  /\ passed \in [Requests -> SUBSET StageNames]
  /\ response \in [Requests -> Outcomes]
  /\ listening \in [Requests -> BOOLEAN]

(* The checks each kind of request must pass before it is verified: the  *)
(* onchain authorisation of a ChangePubKey without Ethereum signature,    *)
(* the group whitelist of a ChangeGroup, a present Ethereum signature,    *)
(* and check_correctness of every transaction or order.                   *)
RequiredChecks(d) ==
  (IF d.kind = "Tx" /\ d.tx = "ChangePubKeyOnchain" THEN {"PubKeyAuthorized"} ELSE {})
    \cup (IF d.kind = "Tx" /\ d.tx = "ChangeGroup" THEN {"GroupAuthorized"} ELSE {})
    \cup (IF d.ethSig # "None" \/ d.kind \in {"Order", "Toggle2FA"} THEN {"EthSignature"} ELSE {})
    \cup (IF d.kind = "Batch" THEN {"BatchEthSignature"} ELSE {})
    \cup (IF d.kind # "Toggle2FA" THEN {"CheckCorrectness"} ELSE {})

(* A requester receives Ok(VerifiedTx) only for a request that passed     *)
(* every check its kind calls for: an early return through `?` or a       *)
(* missing query would let a request through unchecked.                  *)
VerifiedOnlyIfAllChecksPassed ==
  \A r \in Requests : response[r] = "Ok" => RequiredChecks(data[r]) \subseteq passed[r]

(* Every requester that keeps waiting gets an answer (a result, or the    *)
(* cancellation that a panicking task causes by dropping its sender),     *)
(* unless its own external calls hang: a task stuck on the Ethereum node  *)
(* delays no other request.                                               *)
EveryRequestAnswered ==
  \A r \in Requests \ HungRequests :
    pc[r] = "queued" ~> (response[r] # "none" \/ ~listening[r])

=============================================================================

---------------------------- MODULE MCSerialLive ----------------------------
(***************************************************************************)
(* What serialcap promises to bring about: the write side with two         *)
(* transactions and a paced input, and the receive fan-out with a client.  *)
(* They share no state here, so a behaviour is one of theirs, chosen by    *)
(* `part`; the other stays where it begins.                                *)
(***************************************************************************)
EXTENDS SerialPort, SerialRx

CONSTANTS i2, t1, t2

VARIABLE part

MCSize == [c \in Writers |-> IF c = i2 THEN 2 ELSE 1]
MCPaced == {i2}

MCInit ==
  /\ part \in {"port", "rx"}
  /\ Init
  /\ RxInit /\ (part # "rx" => fault = FALSE)

MCNext ==
  \/ part = "port" /\ Next /\ UNCHANGED <<part, rxVars>>
  \/ part = "rx" /\ RxNext /\ UNCHANGED <<part, vars>>

\* FairSpec and RxFairSpec, each while its component runs: the driver accepts
\* bytes, the tasks and the capture thread run.
TasksRun ==
  /\ WF_vars(part = "port" /\ (OpenOk \/ OpenFail))
  /\ WF_vars(part = "port" /\ BackoffEnd)
  /\ SF_vars(part = "port" /\ BackoffRefuse)
  /\ WF_vars(part = "port" /\ DiscardCancelled)
  /\ WF_vars(part = "port" /\ EnterSelect)
  /\ SF_vars(part = "port" /\ RequestArm)
  /\ WF_vars(part = "port" /\ PaceTick)
  /\ WF_vars(part = "port" /\ DropOutbox)
  /\ \A c \in Writers : SF_vars(part = "port" /\ Enqueue(c))
  /\ WF_vars(part = "port" /\ FinishInput(i2))
  /\ \A t \in Txns :
       /\ WF_vars(part = "port" /\ Grant(t))
       /\ WF_vars(part = "port" /\ Expire(t))
       /\ WF_vars(part = "port" /\ GiveUpQueued(t))
       /\ WF_vars(part = "port" /\ TakeBoundary(t))
       /\ WF_vars(part = "port" /\ TxnWrite(t))
       /\ WF_vars(part = "port" /\ AfterWrite(t))
       /\ WF_vars(part = "port" /\ t \in expired /\ EndTxn(t))

ReceiversRun ==
  /\ WF_rxVars(part = "rx" /\ Publish)
  /\ WF_rxVars(part = "rx" /\ Capture)
  /\ \A c \in Clients :
       /\ WF_rxVars(part = "rx" /\ AttachSnapshot(c))
       /\ WF_rxVars(part = "rx" /\ (Forward(c) \/ Lagged(c)))

MCSpec ==
  /\ MCInit /\ [][MCNext]_<<part, vars, rxVars>>
  /\ TasksRun /\ ReceiversRun
  /\ SF_vars(part = "port" /\ WriteArm)

\* Nothing on the serial side waits for ever: writers are answered, transactions end, clients and
\* the capture thread catch up, over disconnects, failed opens and lag.
SerialProgress ==
  /\ EveryWriteAnswered
  /\ TransactionEnds
  /\ ClientCatchesUp
  /\ CaptureCatchesUp
=============================================================================

--------------------------------- MODULE Amt ---------------------------------
(***************************************************************************)
(* The Intel AMT power helper (src/amt): one command that talks WS-Man to  *)
(* the machine's management engine.  A request is two exchanges, refused   *)
(* with a digest challenge and then answered (rpc.rs); power requests are  *)
(* retried and confirmed under a deadline while the machine's own link     *)
(* flaps (main.rs); `kvm enable` and `kvm disable` are several requests of *)
(* which any may fail.  The engine is external: it obeys a request it      *)
(* understands, and its answer may still be lost.  Time is in seconds      *)
(* since the phase of the command began.                                   *)
(***************************************************************************)
EXTENDS Integers, Sequences, FiniteSets

CONSTANTS
    AmtCases,       \* [cmd, scheme, flag, password, challenge, rfb, mebx, fields]
    Powers,         \* the CIM power states the machine may be in at first
    Confirm, Call, MinCall, PollEvery,
    AmtFaults       \* bound: exchanges the link loses

ASSUME AmtAssumption ==
    /\ {Confirm, Call, MinCall, PollEvery} \subseteq Nat \ {0} /\ MinCall =< Call /\ Call =< Confirm
    /\ AmtFaults \in Nat /\ Powers \subseteq Nat
    /\ \A c \in AmtCases :
        /\ c.cmd \in {"state", "on", "off", "cycle", "enable", "disable"} /\ c.scheme \in {"bare", "http", "https"}
        /\ c.flag \in BOOLEAN /\ c.password \in {"right", "wrong"}

VARIABLES
    amt,            \* one of AmtCases
    me,             \* the engine and its machine
    pc,             \* the request the command is at
    leg,            \* of it: "idle", "first", "second"
    spent, ends,    \* seconds in this phase, and when this request's budget ends
    got,            \* what the request returned [kind, val]
    before,         \* the power state the command found
    verdict,        \* what the command said
    amtFaults

amtVars == <<amt, me, pc, leg, spent, ends, got, before, verdict, amtFaults>>

PsOn == 2
PsOffSoft == 8
NoneGot == [kind |-> "none", val |-> 0]
KvmFields == <<"InstanceID", "EnabledByMEBx", "Is5900PortEnabled", "OptInPolicy",
               "OptInPolicyTimeout", "SessionTimeout", "RFBPassword", "DefaultScreen">>
(* The engine's schema, which wants them in this order. *)
SchemaRank == [InstanceID |-> 1, EnabledByMEBx |-> 2, Is5900PortEnabled |-> 3, OptInPolicy |-> 4,
               OptInPolicyTimeout |-> 5, SessionTimeout |-> 6, RFBPassword |-> 7, DefaultScreen |-> 8]

----------------------------------------------------------------------------
(* The connection is validated before any credential is asked for.  Ports  *)
(* never select the transport: http needs both the flag and no https://.   *)

ParseDevice(scheme, flag) ==
    CASE scheme = "https" -> IF flag THEN "refused" ELSE "https"
      [] scheme = "http"  -> IF flag THEN "http" ELSE "refused"
      [] scheme = "bare"  -> IF flag THEN "http" ELSE "https"
Transport == ParseDevice(amt.scheme, amt.flag)

AmtInit ==
    /\ amt \in AmtCases
    /\ me \in [power : Powers, target : {0}, colds : {0}, off : {FALSE}, port : {amt.cmd = "disable"},
               redir : {amt.cmd = "disable"}, stored : BOOLEAN, optin : {TRUE}, bad : {0},
               plain : {FALSE}, invalid : {FALSE}, badRfb : {FALSE}]
    /\ pc = "start" /\ leg = "idle" /\ spent = 0 /\ ends = 0 /\ got = NoneGot
    /\ before = 0 /\ verdict = "none" /\ amtFaults = AmtFaults

(* A new phase of the command, with a request of its own. *)
Phase(p) == pc' = p /\ spent' = 0 /\ ends' = 0 /\ got' = NoneGot
Say(v) == verdict' = v /\ pc' = "end" /\ got' = NoneGot /\ UNCHANGED <<spent, ends>>
AmtConnect ==
    /\ pc = "start"
    /\ IF Transport = "refused" THEN Say("address refused")
       ELSE Phase(IF amt.cmd \in {"enable", "disable"} THEN "kget" ELSE "read") /\ UNCHANGED verdict
    /\ UNCHANGED <<amt, me, leg, before, amtFaults>>

----------------------------------------------------------------------------
(* One request. *)

Clamp(n, lo, hi) == IF n < lo THEN lo ELSE IF n > hi THEN hi ELSE n
AttemptTimeout(now) == Clamp(Confirm - now, MinCall, Call)
Budget == IF pc \in {"reqOff", "reqOn", "waitOff", "waitOn"} THEN AttemptTimeout(spent) ELSE Call
(* What a leg may take: ureq's floor, under the TLS stream's own deadline. *)
LegLimit ==
    LET left == IF ends > spent THEN ends - spent ELSE 0
    IN  IF Transport = "https" THEN left ELSE IF left < MinCall THEN MinCall ELSE left
Takes(limit) == \E d \in {0, limit} : spent' = spent + d

PostBegins ==
    /\ pc \notin {"start", "hold", "end"} /\ leg = "idle" /\ got = NoneGot
    /\ leg' = "first" /\ ends' = spent + Budget
    /\ UNCHANGED <<amt, me, pc, spent, got, before, verdict, amtFaults>>

(* A failed exchange: one that may clear by itself, or a TLS or protocol   *)
(* failure that will not.                                                  *)
TransportKinds == {"transient", "fatal"}
Lost ==
    /\ amtFaults > 0 /\ amtFaults' = amtFaults - 1 /\ leg' = "idle" /\ Takes(LegLimit)
    /\ \E k \in TransportKinds : got' = [kind |-> k, val |-> 0]
Plainly(m) == [m EXCEPT !.plain = @ \/ Transport = "http"]
ParseChallenge == amt.challenge \in {"auth", "legacy"}
PostChallenged ==
    /\ leg = "first"
    /\ \/ /\ ParseChallenge /\ leg' = "second" /\ Takes(LegLimit) /\ UNCHANGED <<got, amtFaults>>
       \/ /\ ~ParseChallenge /\ leg' = "idle" /\ got' = [kind |-> "fatal", val |-> 0]
          /\ UNCHANGED <<spent, amtFaults>>
       \/ Lost
    /\ me' = Plainly(me)
    /\ UNCHANGED <<amt, pc, ends, before, verdict>>

(* kvm_put_body: what the Get reported, in the order the schema wants, the *)
(* password only when one was given.  A body is its fields, by place.      *)
Managed == {"Is5900PortEnabled", "OptInPolicy", "SessionTimeout"}
Emitted(withPw) == (amt.fields \ {"RFBPassword"}) \union Managed \union (IF withPw THEN {"RFBPassword"} ELSE {})
KvmPutBody(withPw) == [i \in {i \in DOMAIN KvmFields : KvmFields[i] \in Emitted(withPw)} |-> KvmFields[i]]
InSchemaOrder(body) == \A i, j \in DOMAIN body : i < j => SchemaRank[body[i]] < SchemaRank[body[j]]
Opening == amt.cmd = "enable"
WithPw == Opening /\ amt.rfb # "none"

(* The engine: what the request does there, and what it answers. *)
KvmReads == {"kget", "kraw", "kread", "ksap"}
Obeys ==
    CASE pc \in {"reqOff", "reqOn"} -> [me EXCEPT !.target = IF pc = "reqOn" THEN PsOn ELSE PsOffSoft]
      [] pc = "kput" ->
            IF ~InSchemaOrder(KvmPutBody(WithPw)) THEN [me EXCEPT !.invalid = TRUE]
            ELSE IF Opening /\ ~(me.stored \/ WithPw) THEN me
            ELSE [me EXCEPT !.port = Opening, !.stored = @ \/ WithPw, !.optin = IF Opening THEN FALSE ELSE @,
                            !.badRfb = @ \/ (WithPw /\ amt.rfb = "bad")]
      [] pc = "kstate" -> [me EXCEPT !.redir = Opening]
      [] pc \in KvmReads \union {"read", "waitOff", "waitOn"} -> me
Answer ==
    CASE pc = "kput" /\ (Obeys.invalid \/ (Opening /\ ~(me.stored \/ WithPw))) -> [kind |-> "fatal", val |-> 0]
      [] pc \in {"read", "waitOff", "waitOn"} -> [kind |-> "ok", val |-> me.power]
      [] OTHER -> [kind |-> "ok", val |-> 0]
AuthFailed == [kind |-> "auth", val |-> 0]
PostAnswered ==
    /\ leg = "second"
    /\ \/ /\ amt.password = "right" /\ me' = Plainly(Obeys) /\ got' = Answer
          /\ leg' = "idle" /\ Takes(LegLimit) /\ UNCHANGED amtFaults
       \/ /\ amt.password = "wrong" /\ me' = [Plainly(me) EXCEPT !.bad = @ + 1]
          /\ got' = AuthFailed /\ leg' = "idle" /\ Takes(LegLimit) /\ UNCHANGED amtFaults
       \/ /\ amtFaults > 0 /\ amtFaults' = amtFaults - 1 /\ got' = AuthFailed \* a stale nonce
          /\ leg' = "idle" /\ UNCHANGED <<me, spent>>
       \/ Lost /\ me' = me
       \/ Lost /\ amt.password = "right" /\ me' = Plainly(Obeys)
       \/ Lost /\ amt.password = "wrong" /\ me' = [Plainly(me) EXCEPT !.bad = @ + 1]
    /\ UNCHANGED <<amt, pc, ends, before, verdict>>

(* Host side: the machine settles in the state it was last asked for.  On  *)
(* from Off - Soft is a cold boot, from any other state a resume.          *)
MachineSettles ==
    /\ me.target # 0
    /\ me' = [me EXCEPT !.power = me.target, !.target = 0, !.off = @ \/ me.target = PsOffSoft,
                        !.colds = IF me.power = PsOffSoft /\ me.target = PsOn THEN 1 ELSE @]
    /\ UNCHANGED <<amt, pc, leg, spent, ends, got, before, verdict, amtFaults>>

----------------------------------------------------------------------------
(* The commands, from what a request returned. *)

IsTransient(g) == g.kind = "transient"
Failed(g) == g.kind \in {"transient", "fatal", "auth"}
OnOff(ps) ==
    IF ps = PsOn THEN "on" ELSE IF ps \in {3, 4, 6, 7, PsOffSoft, 12, 13} THEN "off" ELSE "unmapped"
NeedsOffUnlessOff(ps) == OnOff(ps) # "off"
NeedsOffPhase(ps) == ps # PsOffSoft
Ready(p) == pc = p /\ leg = "idle" /\ got # NoneGot
Same == UNCHANGED <<amt, me, leg, amtFaults>>

ReadDone ==
    /\ Ready("read") /\ Same
    /\ LET ps == got.val IN
       \/ Failed(got) /\ Say("failed") /\ UNCHANGED before
       \/ ~Failed(got) /\ amt.cmd = "state" /\ Say(OnOff(ps)) /\ UNCHANGED before
       \/ ~Failed(got) /\ amt.cmd = "on" /\ ps = PsOn /\ Say("on") /\ UNCHANGED before
       \/ ~Failed(got) /\ amt.cmd = "off" /\ ps = PsOffSoft /\ Say("off") /\ UNCHANGED before
       \/ /\ ~Failed(got) /\ before' = ps /\ UNCHANGED verdict
          /\ \/ amt.cmd = "on" /\ ps # PsOn /\ Phase("reqOn")
             \/ amt.cmd = "off" /\ ps # PsOffSoft /\ Phase("reqOff")
             \/ amt.cmd = "cycle" /\ Phase(IF NeedsOffPhase(ps) THEN "reqOff" ELSE "reqOn")

Again == spent' = spent + PollEvery /\ got' = NoneGot /\ UNCHANGED <<pc, ends, verdict>>
RequestRetrying(p, next) ==
    /\ Ready(p) /\ Same /\ UNCHANGED before
    /\ IF IsTransient(got) /\ spent < Confirm THEN Again
       ELSE IF Failed(got) THEN Say("failed")
       ELSE Phase(next) /\ UNCHANGED verdict
WaitUntil(p, want, next) ==
    /\ Ready(p) /\ Same /\ UNCHANGED before
    /\ IF got.kind = "ok" /\ got.val = want THEN next
       ELSE IF got.kind = "ok" /\ spent >= Confirm THEN Say("stuck")
       ELSE IF Failed(got) /\ (~IsTransient(got) \/ spent >= Confirm) THEN Say("failed")
       ELSE Again
CycleHold ==
    /\ pc = "hold" /\ Phase("reqOn") /\ UNCHANGED <<amt, me, leg, before, verdict, amtFaults>>
WaitOffDone == IF amt.cmd = "cycle" THEN Phase("hold") /\ UNCHANGED verdict ELSE Say("off")
WaitOnDone == Say(IF amt.cmd = "cycle" THEN "cycled" ELSE "on")

(* kvm: settings, a Put made from a fresh Get, then the state, and the     *)
(* status last; disable closes the port before it stops redirection.       *)
CheckRfbPassword == amt.rfb # "bad"
KvmNext == [kget |-> "kraw", kraw |-> "kput", kput |-> "kstate", kstate |-> "kread", kread |-> "ksap"]
KvmSteps == {"kget", "kraw", "kput", "kstate", "kread", "ksap"}
KvmFailure ==
    CASE pc = "kget" -> "failed" [] pc \in {"kraw", "kput"} -> "not written"
      [] pc = "kstate" -> "half applied" [] OTHER -> "failed"
KvmStep ==
    /\ pc \in KvmSteps /\ Ready(pc) /\ Same /\ UNCHANGED before
    /\ IF Failed(got) THEN Say(KvmFailure)
       ELSE IF pc = "kget" /\ Opening /\ ~(amt.mebx /\ CheckRfbPassword) THEN Say("not attempted")
       ELSE IF pc = "ksap" THEN Say("kvm done")
       ELSE Phase(KvmNext[pc]) /\ UNCHANGED verdict

AmtStep ==
    \/ AmtConnect \/ PostBegins \/ PostChallenged \/ PostAnswered \/ ReadDone
    \/ RequestRetrying("reqOff", "waitOff") \/ RequestRetrying("reqOn", "waitOn")
    \/ WaitUntil("waitOff", PsOffSoft, WaitOffDone) \/ WaitUntil("waitOn", PsOn, WaitOnDone)
    \/ CycleHold \/ KvmStep
AmtNext == AmtStep \/ MachineSettles
AmtSpec == AmtInit /\ [][AmtNext]_amtVars /\ WF_amtVars(AmtStep)

----------------------------------------------------------------------------
(* Type of the variables; no digest is computed for a challenge the helper *)
(* cannot honour (parse_challenge, rpc.rs 826-831).                        *)
AmtTypeOK ==
    /\ leg = "second" => ParseChallenge
    /\ leg \in {"idle", "first", "second"} /\ got.kind \in {"none", "ok", "transient", "fatal", "auth"}
    /\ pc \in {"start", "read", "reqOff", "reqOn", "waitOff", "waitOn", "hold", "end"} \union KvmSteps
    /\ spent \in Nat /\ amtFaults \in 0..AmtFaults

(* What the command says of the power is what the machine is in, through   *)
(* lost answers and retries; and a machine it says it cycled was off and   *)
(* booted cold, never merely resumed (main.rs 478-484, 514-535).           *)
SaidIsSo ==
    /\ (verdict = "on" => me.power = PsOn) /\ (verdict = "off" => me.power # PsOn)
    /\ verdict = "cycled" => me.power = PsOn /\ me.colds = 1

(* However the link behaves, a phase of the command ends within its        *)
(* deadline, one poll and the floor of two exchanges (main.rs 549-560,     *)
(* rpc.rs 493-498).                                                        *)
BudgetHolds == spent =< Confirm + PollEvery + 2 * MinCall

(* The engine locks an account after a few bad logins: a wrong password is *)
(* tried once in a command (is_transient, rpc.rs 150-154).                 *)
WrongPasswordTriedOnce == me.bad =< 1

(* Nothing is sent in the clear but by explicit choice, and no failure     *)
(* turns a command to it (rpc.rs 17-19).                                   *)
NoDowngrade == me.plain => amt.flag /\ amt.scheme # "https"

(* While `kvm disable` runs, and wherever it stops, redirection is off     *)
(* only behind a closed port (main.rs 439-441).                            *)
DisableIsConservative == (amt.cmd = "disable" /\ ~me.redir) => ~me.port

(* The engine never sees a Put its schema rejects nor a password its       *)
(* firmware would; "half applied" is said only when the settings stand     *)
(* (rpc.rs 66-75, main.rs 330-333, 426-430).                               *)
PutIsWellFormed ==
    /\ ~me.invalid /\ ~me.badRfb
    /\ verdict = "half applied" => me.port = Opening

(* A command that has begun says something in the end. *)
CommandSpeaks == pc # "start" ~> verdict # "none"

\* Through lost answers, retries and stale sessions, what an amt command says of the machine is
\* so, and it neither locks the account nor weakens the link on the way (amt main.rs, rpc.rs).
PowerIsAsSaid ==
  /\ AmtTypeOK
  /\ SaidIsSo
  /\ BudgetHolds
  /\ WrongPasswordTriedOnce
  /\ NoDowngrade
  /\ DisableIsConservative
  /\ PutIsWellFormed
=============================================================================

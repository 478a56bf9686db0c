------------------------------ MODULE LabEdit ------------------------------
(***************************************************************************)
(* Editing the lab file.  A config verb loads the file, edits the document *)
(* it holds, checks it and renames a finished copy into place; nothing     *)
(* locks the file, so two verbs, or a verb and an editor, may overlap.     *)
(***************************************************************************)
EXTENDS LabModel

CONSTANTS Editors,   \* CLI processes
          Edits,     \* what may be asked: [op, t, to, kind, name, opts]
          HandLabs,  \* labs a person may write
          Repairs,   \* edits that a person repairing a clash may try
          Inventories, \* what a host may find: [eth, serial, video, adb]
          MaxEdits   \* bound: verbs started

ASSUME EditAssumption == MaxEdits \in Nat /\ "none" \notin Editors

VARIABLES file,   \* NoFile, or the lab in it
          saver,  \* history: who wrote it
          ed,     \* per editor: where it is, the document it holds
          started

labVars == <<file, saver, ed, started>>

NoFile == [hosts |-> {"none"}, targets |-> [t \in {} |-> NewTarget(Unset)]]
Done(lab) == [ok |-> TRUE, lab |-> lab]
Refused(lab) == [ok |-> FALSE, lab |-> lab]
Idle == [at |-> "idle", doc |-> EmptyLab, edit |-> [op |-> "none"]]

(***************************************************************************)
(* The verbs.                                                              *)
(***************************************************************************)
\* set_opt, set_port: what is not given stays; port 0 drops the key; -1 is not given.
SetOpt(old, new) == IF new = Unset THEN old ELSE new
SetPort(old, new) == IF new = -1 THEN old ELSE new
SetDoctor(c, o) == [c EXCEPT !.doctor = IF o.doctor = Unset THEN @ ELSE o.doctor = "on"]
SetFields(c, o) ==
  [c EXCEPT !.host = SetOpt(@, o.host), !.port = SetPort(@, o.port), !.iface = SetOpt(@, o.iface),
            !.net = SetOpt(@, o.net), !.ref = SetOpt(@, o.ref), !.dev = SetOpt(@, o.dev)]
WithTarget(lab, n, t) == [lab EXCEPT !.targets = (n :> t) @@ @]
Without(f, k) == [x \in DOMAIN f \ {k} |-> f[x]]
WithChannel(lab, n, k, c) == WithTarget(lab, n, [lab.targets[n] EXCEPT !.ch = (k :> c) @@ @])

\* host_references, and the hosts.
HostReferences(lab, h) ==
  { n \in DOMAIN lab.targets : h \in {DefaultHost(lab.targets[n])} \cup { c.host : c \in Resolved(lab.targets[n]) } }
AddHost(lab, e) == IF e.name \in lab.hosts THEN Refused(lab) ELSE Done([lab EXCEPT !.hosts = @ \cup {e.name}])
RemoveHost(lab, e) ==
  IF e.name \notin lab.hosts \/ HostReferences(lab, e.name) # {} THEN Refused(lab)
  ELSE Done([lab EXCEPT !.hosts = @ \ {e.name}])

AddTarget(lab, e) ==
  IF e.t \in DOMAIN lab.targets THEN Refused(lab) ELSE Done(WithTarget(lab, e.t, NewTarget(e.opts.host)))
UpdateTarget(lab, e) ==
  IF e.t \notin DOMAIN lab.targets THEN Refused(lab)
  ELSE Done([lab EXCEPT !.targets[e.t].host = SetOpt(@, e.opts.host)])
RemoveTarget(lab, e) ==
  IF e.t \notin DOMAIN lab.targets THEN Refused(lab) ELSE Done([lab EXCEPT !.targets = Without(@, e.t)])
RenameTarget(lab, e) ==
  IF e.t \notin DOMAIN lab.targets \/ e.to \in DOMAIN lab.targets THEN Refused(lab)
  ELSE Done([lab EXCEPT !.targets = Without((e.to :> lab.targets[e.t]) @@ @, e.t)])

\* The serial interfaces, in order; the last one takes the list with it.
SerialAt(t, name) == { i \in DOMAIN t.serial : t.serial[i].name = name }
AddSerial(lab, e) ==
  IF e.t \notin DOMAIN lab.targets \/ SerialAt(lab.targets[e.t], e.name) # {} THEN Refused(lab)
  ELSE Done([lab EXCEPT !.targets[e.t].serial =
               Append(@, [name |-> e.name, host |-> e.opts.host, port |-> SetPort(0, e.opts.port)])])
UpdateSerial(lab, e) ==
  IF e.t \notin DOMAIN lab.targets \/ SerialAt(lab.targets[e.t], e.name) = {} THEN Refused(lab)
  ELSE Done([lab EXCEPT !.targets[e.t].serial =
               [i \in DOMAIN @ |-> IF i \in SerialAt(lab.targets[e.t], e.name)
                                   THEN [@[i] EXCEPT !.host = SetOpt(@, e.opts.host), !.port = SetPort(@, e.opts.port)]
                                   ELSE @[i]]])
RemoveSerial(lab, e) ==
  IF e.t \notin DOMAIN lab.targets \/ SerialAt(lab.targets[e.t], e.name) = {} THEN Refused(lab)
  ELSE Done([lab EXCEPT !.targets[e.t].serial = SelectSeq(@, LAMBDA s : s.name # e.name)])

\* set_singleton creates the channel; set_netboot then judges this one link.
SetChannel(lab, e) ==
  IF e.t \notin DOMAIN lab.targets THEN Refused(lab)
  ELSE LET t == lab.targets[e.t]
           was == IF e.kind \in DOMAIN t.ch THEN t.ch[e.kind] ELSE Blank
           new == WithChannel(lab, e.t, e.kind, SetDoctor(SetFields(was, e.opts), e.opts))
       IN IF e.kind = "netboot" /\ Clashes(new, e.t) # {} THEN Refused(lab) ELSE Done(new)
RemoveChannel(lab, e) ==
  IF e.t \notin DOMAIN lab.targets THEN Refused(lab)
  ELSE IF e.kind \notin DOMAIN lab.targets[e.t].ch THEN Refused(lab)
  ELSE Done([lab EXCEPT !.targets[e.t].ch = Without(@, e.kind)])

\* A power level or an action; opts.dev tells whether a command is given, which a new one needs.
SetSub(lab, e) ==
  IF e.t \notin DOMAIN lab.targets THEN Refused(lab)
  ELSE LET t == lab.targets[e.t]
           was == IF e.kind \in DOMAIN t.ch THEN t.ch[e.kind] ELSE Blank
       IN IF e.name \notin was.subs /\ e.opts.dev = Unset THEN Refused(lab)
          ELSE Done(WithChannel(lab, e.t, e.kind, SetDoctor([was EXCEPT !.subs = @ \cup {e.name}, !.host = SetOpt(@, e.opts.host)], e.opts)))
\* The actions table goes with its last action; a power channel stays.
RemoveSub(lab, e) ==
  IF e.t \notin DOMAIN lab.targets THEN Refused(lab)
  ELSE LET t == lab.targets[e.t]
       IN IF e.kind \notin DOMAIN t.ch THEN Refused(lab)
          ELSE IF e.name \notin t.ch[e.kind].subs THEN Refused(lab)
          ELSE IF e.kind = "actions" /\ t.ch[e.kind].subs = {e.name}
          THEN Done([lab EXCEPT !.targets[e.t].ch = Without(@, e.kind)])
          ELSE Done([lab EXCEPT !.targets[e.t].ch[e.kind].subs = @ \ {e.name}])
\* The command line's verbs.
HostVerb(lab, e) == IF e.op = "add_host" THEN AddHost(lab, e) ELSE RemoveHost(lab, e)
TargetVerb(lab, e) ==
  CASE e.op = "add_target" -> AddTarget(lab, e) [] e.op = "set_target" -> UpdateTarget(lab, e)
    [] e.op = "rm_target" -> RemoveTarget(lab, e) [] e.op = "rename" -> RenameTarget(lab, e)
SerialVerb(lab, e) ==
  CASE e.op = "add_serial" -> AddSerial(lab, e) [] e.op = "set_serial" -> UpdateSerial(lab, e)
    [] e.op = "rm_serial" -> RemoveSerial(lab, e)
ChannelVerb(lab, e) == IF e.op = "set" THEN SetChannel(lab, e) ELSE RemoveChannel(lab, e)
SubVerb(lab, e) == IF e.op = "set_sub" THEN SetSub(lab, e) ELSE RemoveSub(lab, e)
Applied(lab, e) ==
  CASE e.op \in {"add_host", "rm_host"} -> HostVerb(lab, e)
    [] e.op \in {"add_target", "set_target", "rm_target", "rename"} -> TargetVerb(lab, e)
    [] e.op \in {"add_serial", "set_serial", "rm_serial"} -> SerialVerb(lab, e)
    [] e.op \in {"set", "rm"} -> ChannelVerb(lab, e)
    [] e.op \in {"set_sub", "rm_sub"} -> SubVerb(lab, e)

(***************************************************************************)
(* edit_lab and its steps.                                                 *)
(***************************************************************************)
LabInit ==
  /\ file \in HandLabs \cup {NoFile} /\ saver = "hand"
  /\ ed = [p \in Editors |-> Idle] /\ started = 0

\* Load, or create when there is none; a lab that does not validate is not opened.
Load(p, e) ==
  /\ ed[p] = Idle /\ started < MaxEdits /\ started' = started + 1
  /\ file = NoFile \/ Validate(file)
  /\ ed' = [ed EXCEPT ![p] = [at |-> "loaded", doc |-> IF file = NoFile THEN EmptyLab ELSE file, edit |-> e]]
  /\ UNCHANGED <<file, saver>>
\* mutate, validate_for_save, the temp file.
WriteTemp(p) ==
  /\ ed[p].at = "loaded"
  /\ LET r == Applied(ed[p].doc, ed[p].edit)
     IN ed' = [ed EXCEPT ![p] = IF r.ok /\ ValidateForSave(r.lab) THEN [@ EXCEPT !.at = "written", !.doc = r.lab] ELSE Idle]
  /\ UNCHANGED <<file, saver, started>>
Persist(p) ==
  /\ ed[p].at = "written"
  /\ file' = ed[p].doc /\ saver' = "cli" /\ ed' = [ed EXCEPT ![p] = Idle] /\ UNCHANGED started
\* init: an empty lab, where there is none.
InitLab(p) ==
  /\ ed[p] = Idle /\ file = NoFile /\ started < MaxEdits /\ started' = started + 1
  /\ file' = EmptyLab /\ saver' = "cli" /\ UNCHANGED ed
Killed(p) ==
  /\ ed[p] # Idle /\ ed' = [ed EXCEPT ![p] = Idle] /\ UNCHANGED <<file, saver, started>>
HandEdit ==
  /\ started < MaxEdits /\ started' = started + 1
  /\ \E l \in HandLabs : file' = l
  /\ saver' = "hand" /\ UNCHANGED ed

LabNext ==
  \/ HandEdit
  \/ \E p \in Editors : WriteTemp(p) \/ Persist(p) \/ InitLab(p) \/ Killed(p) \/ \E e \in Edits : Load(p, e)

(***************************************************************************)
(* What the editor promises.                                               *)
(***************************************************************************)
LabTypeOK ==
  /\ saver \in {"hand", "cli"} /\ started \in 0..MaxEdits
  /\ \A p \in Editors : ed[p].at \in {"idle", "loaded", "written"}
  /\ \A n \in DOMAIN file.targets :
       LET t == file.targets[n]
       IN /\ DOMAIN t.ch \subseteq ChannelKinds /\ \A k \in DOMAIN t.ch : t.ch[k].port \in Nat
          /\ \A i \in DOMAIN t.serial : t.serial[i].port \in Nat

\* However verbs and hand edits overlap, a file the CLI wrote refers to nothing that is not
\* in it: every channel is on a declared host, a power channel senses an interface of its
\* own target, a screen read through the hid daemon has that daemon beside it.
SavedRefersToItself ==
  saver = "cli" =>
    \A n \in DOMAIN file.targets :
      LET t == file.targets[n]
      IN /\ \A c \in Resolved(t) : c.host \in file.hosts \cup {Local}
         /\ "power" \in DOMAIN t.ch => t.ch["power"].ref \in { s.name : s \in ToSet(t.serial) } \cup {Unset}
         /\ ("video" \in DOMAIN t.ch /\ t.ch["video"].dev = "rfb+hid") =>
              \E c \in Resolved(t) : c.kind = "hid" /\ c.host = HostOf(t, t.ch["video"])

\* Two links that share a /24 can be parted with one verb, whatever else is wrong elsewhere.
ClashIsRepairable ==
  (file # NoFile /\ Validate(file) /\ \A n \in DOMAIN file.targets : SensesOwn(file.targets[n])) =>
    \A n \in DOMAIN file.targets :
      Clashes(file, n) # {} =>
        \E e \in Repairs : LET r == Applied(file, [e EXCEPT !.t = n])
                           IN r.ok /\ ValidateForSave(r.lab) /\ Clashes(r.lab, n) = {}

\* The host a slice is sent to accepts it, takes every channel in it for its own, and has
\* all of those wired to it: no command is dispatched a second time.
SliceIsLocal ==
  (file # NoFile /\ Validate(file)) =>
    \A n \in DOMAIN file.targets : \A h \in TargetHosts(file.targets[n]) :
      LET t == file.targets[n]
          s == BuildSlice(file, n, h)
      IN /\ Validate(s)
         /\ \A c \in Resolved(s.targets[n]) : c.host = Local
         /\ \A c \in Resolved(t) :
              (c.host = h /\ (c.kind = "actions" => t.ch["actions"].subs # {})) =>
                ChannelHost(s.targets[n], c.kind, IF c.kind = "serial" THEN c.name ELSE Unset) = Local
         /\ SerialPorts(s.targets[n]) \subseteq SerialPorts(t)

\* What `configure` proposes for a host's hardware can be pasted into any lab that loads.
ProposalLoads ==
  (file # NoFile /\ Validate(file)) =>
    \A inv \in Inventories, h \in file.hosts \cup {Local} : Validate(WithTarget(file, "proposed", Propose(inv, h)))

\* "Two daemons on one host cannot listen on the same fixed port: refuse a lab where the
\* video, serial or hid ports of any targets collide on a host."
Listens(n, t) ==
  ChannelClaims(n, t) \cup { <<n, "serial", HostOf(t, s), s.port>> : s \in { s \in ToSet(t.serial) : s.port # 0 } }
FixedPortsDistinct ==
  saver = "cli" =>
    \A a, b \in UNION { Listens(n, file.targets[n]) : n \in DOMAIN file.targets } : a[3] = b[3] /\ a[4] = b[4] => a = b
=============================================================================

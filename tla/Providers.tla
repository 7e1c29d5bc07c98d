----------------------------- MODULE Providers -----------------------------
(***************************************************************************)
(* Provider plug-ins: the registry ~/.sir/providers.json, the `sir         *)
(* provider` commands that load it, work and save it back without a lock,  *)
(* and the hooks that consult the providers it lists and dispatch effects  *)
(* to them.  A provider is a name; its kind is the one of its manifest.    *)
(***************************************************************************)
EXTENDS ProviderWire

CONSTANTS
    Names,          \* providers
    Kind,           \* name -> kind of its manifest
    Commands,       \* `sir provider` invocations
    Ops,            \* what they may be asked to do: [op, name, other, onfail]
    Hooks,          \* `sir guard` invocations
    Natives,        \* hook -> possible native decisions of its tool call
    Replies,        \* what a policy provider's process may leave behind
    Assessments,    \* and an advisory provider's
    Installed,      \* providers in the registry at first
    Managed,        \* the lease is managed
    Corruptible     \* something may damage the file

ASSUME KindAssumption == Kind \in [Names -> {"policy", "effect", "export", "advisory"}]
ASSUME NameAssumption == "none" \notin Names
ASSUME ReplyAssumption ==
    \A p \in Replies : p.end \in {"ok", "hang", "exit", "missing"} /\ p.out \in Seq(Elements(p.out))
ASSUME OpAssumption ==
    \A o \in Ops : /\ o.name \in Names /\ o.other \in Names /\ o.onfail \in {"ask", "deny"}
                   /\ o.op \in {"install", "with_provider", "uninstall", "enable", "use", "disable", "swap",
                               "authoritative", "advisory", "configure", "status"}

VARIABLES
    file,           \* the registry's file: [ok, reg]
    cmd,            \* the commands
    hook,           \* the hooks
    confirmed       \* history: providers an operator confirmed as authoritative

vars == <<file, cmd, hook, confirmed>>

Absent == [here |-> FALSE, enabled |-> FALSE, auth |-> FALSE, onfail |-> "ask", health |-> "unknown"]
Fresh == [Absent EXCEPT !.here = TRUE, !.enabled = TRUE]
emptyRegistry == [n \in Names |-> Absent]
Intact(reg) == [ok |-> TRUE, reg |-> reg]
Corrupt == [ok |-> FALSE, reg |-> emptyRegistry]

exclusiveKind(k) == k \in {"policy", "effect"}
ByName(reg, n) == reg[n].here
Active(reg, k) == {n \in Names : reg[n].here /\ reg[n].enabled /\ Kind[n] = k}
IsAuthoritative(reg, n) == Kind[n] = "policy" /\ reg[n].auth

NewCommand == [pc |-> "new", o |-> [op |-> "none"], reg |-> emptyRegistry]

Init ==
    /\ file = Intact([n \in Names |-> IF n \in Installed THEN Fresh ELSE Absent])
    /\ cmd = [c \in Commands |-> NewCommand]
    /\ hook = [h \in Hooks |-> [pc |-> "new", reg |-> emptyRegistry, bad |-> FALSE, native |-> "none", asked |-> {},
                                decider |-> "none", reply |-> Ran(<<>>), verdict |-> "none",
                                block |-> "none", told |-> {}]]
    /\ confirmed = {}

-----------------------------------------------------------------------------
(***************************************************************************)
(* The registry's operations.                                              *)
(***************************************************************************)
\* Other providers of an exclusive kind give way.
Enable(reg, n) ==
    [m \in Names |-> IF m = n THEN [reg[m] EXCEPT !.enabled = TRUE]
                     ELSE IF exclusiveKind(Kind[n]) /\ Kind[m] = Kind[n] THEN [reg[m] EXCEPT !.enabled = FALSE]
                     ELSE reg[m]]
Disable(reg, n) == [reg EXCEPT ![n].enabled = FALSE]

\* Mutant: authority is granted without taking it from the others.
SetAuthorityOnly(reg, n, onfail) == [reg EXCEPT ![n].auth = TRUE, ![n].onfail = onfail]

\* Authority is exclusive: every other policy provider loses it.
SetAuthority(reg, n, onfail) ==
    [m \in Names |-> IF m = n THEN [reg[m] EXCEPT !.auth = TRUE, !.onfail = onfail]
                     ELSE IF Kind[m] = "policy" THEN [reg[m] EXCEPT !.auth = FALSE, !.onfail = "ask"]
                     ELSE reg[m]]
Demote(reg, n) == [reg EXCEPT ![n].auth = FALSE, ![n].onfail = "ask"]

UpdateHealth(reg, n) == [reg EXCEPT ![n].health = "checked"]

\* Add leaves a new provider enabled.
Add(reg, n) == [reg EXCEPT ![n] = Fresh]
Remove(reg, n) == [reg EXCEPT ![n] = Absent]
Swap(reg, old, new) == Enable(Disable(reg, old), new)

-----------------------------------------------------------------------------
(***************************************************************************)
(* What each command refuses on the registry it loaded, and what it makes  *)
(* of it.  A setting of `configure` is not kept, its save is.              *)
(***************************************************************************)
Yields(refused, reg) == [refused |-> refused, reg |-> reg]

cmdProviderInstall(o, reg) == Yields(ByName(reg, o.name), UpdateHealth(Add(reg, o.name), o.name))
registerProviderFromInstall(o, reg) ==
    Yields(FALSE, UpdateHealth(IF ByName(reg, o.name) THEN reg ELSE Add(reg, o.name), o.name))
cmdProviderUninstall(o, reg) == Yields(~ByName(reg, o.name), Remove(reg, o.name))
cmdProviderEnable(o, reg) == Yields(~ByName(reg, o.name), Enable(reg, o.name))
cmdProviderUse(o, reg) == Yields(~ByName(reg, o.name), Enable(reg, o.name))
cmdProviderDisable(o, reg) == Yields(~ByName(reg, o.name), Disable(reg, o.name))
cmdProviderSwap(o, reg) ==
    Yields(~ByName(reg, o.name) \/ ~ByName(reg, o.other) \/ Kind[o.name] # Kind[o.other], Swap(reg, o.name, o.other))
cmdProviderAuthoritative(o, reg) ==
    Yields(~ByName(reg, o.name) \/ Kind[o.name] # "policy" \/ ~reg[o.name].enabled, SetAuthority(reg, o.name, o.onfail))
cmdProviderAdvisory(o, reg) ==
    Yields(~ByName(reg, o.name) \/ ~IsAuthoritative(reg, o.name), Demote(reg, o.name))
cmdProviderConfigure(o, reg) == Yields(~ByName(reg, o.name), reg)
cmdProviderStatus(o, reg) ==
    Yields(FALSE, [n \in Names |-> IF ByName(reg, n) THEN [reg[n] EXCEPT !.health = "checked"] ELSE reg[n]])

cmdProvider(o, reg) ==
    CASE o.op = "install" -> cmdProviderInstall(o, reg)
      [] o.op = "with_provider" -> registerProviderFromInstall(o, reg)
      [] o.op = "uninstall" -> cmdProviderUninstall(o, reg)
      [] o.op = "enable" -> cmdProviderEnable(o, reg)
      [] o.op = "use" -> cmdProviderUse(o, reg)
      [] o.op = "disable" -> cmdProviderDisable(o, reg)
      [] o.op = "swap" -> cmdProviderSwap(o, reg)
      [] o.op = "authoritative" -> cmdProviderAuthoritative(o, reg)
      [] o.op = "advisory" -> cmdProviderAdvisory(o, reg)
      [] o.op = "configure" -> cmdProviderConfigure(o, reg)
      [] o.op = "status" -> cmdProviderStatus(o, reg)

-----------------------------------------------------------------------------
(***************************************************************************)
(* The commands.                                                           *)
(***************************************************************************)
Done == [NewCommand EXCEPT !.pc = "done"]

\* Load: a damaged file ends the command.
Load(c) ==
    /\ cmd[c].pc = "new"
    /\ \E o \in Ops :
          cmd' = [cmd EXCEPT ![c] = IF file.ok /\ ~cmdProvider(o, file.reg).refused THEN [pc |-> "work", o |-> o, reg |-> file.reg]
                                    ELSE Done]
    /\ UNCHANGED <<file, hook, confirmed>>

\* Health checks, or the operator who is asked.
Confirm(c) ==
    /\ cmd[c].pc = "work"
    /\ cmd' = [cmd EXCEPT ![c].pc = "save"]
    /\ confirmed' = IF cmd[c].o.op = "authoritative" THEN confirmed \cup {cmd[c].o.name} ELSE confirmed
    /\ UNCHANGED <<file, hook>>

\* The operator declines, or the command is interrupted.
Cancel(c) ==
    /\ cmd[c].pc = "work"
    /\ cmd' = [cmd EXCEPT ![c] = Done]
    /\ UNCHANGED <<file, hook, confirmed>>

\* Save replaces the file, whatever was written since Load.
Save(c) ==
    /\ cmd[c].pc = "save"
    /\ file' = Intact(cmdProvider(cmd[c].o, cmd[c].reg).reg)
    /\ cmd' = [cmd EXCEPT ![c] = Done]
    /\ UNCHANGED <<hook, confirmed>>

SaveFails(c) ==
    /\ cmd[c].pc = "save"
    /\ cmd' = [cmd EXCEPT ![c] = Done]
    /\ UNCHANGED <<file, hook, confirmed>>

Damage ==
    /\ Corruptible /\ file.ok
    /\ file' = Corrupt
    /\ UNCHANGED <<cmd, hook, confirmed>>

-----------------------------------------------------------------------------
(***************************************************************************)
(* The hooks.                                                              *)
(***************************************************************************)
\* HighestAdvisoryRisk: a high or critical assessment raises, a failed or
\* silent one does not.
Alarming(p) == InvokeAdvisory(p).level \in {"high", "critical"}

Strictest(vs) == IF "deny" \in vs THEN "deny" ELSE IF "ask" \in vs THEN "ask" ELSE "allow"

\* Advice raises an allow to an ask; on the protected developer workflow it
\* raises nothing.
composed(native, raised) ==
    IF native = "workflow" THEN "allow" ELSE IF native = "allow" /\ raised THEN "ask" ELSE native

FailureVerdict(reg, n) == IF Managed THEN "deny" ELSE reg[n].onfail

\* Mutant: silence of the decision point is consent.
resolveTrusting(reg, n, out) ==
    IF invokePolicy(out).failed # "none" THEN FailureVerdict(reg, n) ELSE Strictest(invokePolicy(out).says)

\* The authoritative provider decides; without a verdict it fails closed.
resolveAuthoritative(reg, n, out) ==
    IF invokePolicy(out).says = {} THEN FailureVerdict(reg, n) ELSE Strictest(invokePolicy(out).says)

activeAuthoritative(reg) == {n \in Active(reg, "policy") : IsAuthoritative(reg, n)}

\* loadProviderRegistryChecked: once per process.
LoadRegistry(h) ==
    \E native \in Natives[h] :
        /\ hook[h].pc = "new"
        /\ hook' = [hook EXCEPT ![h] = [@ EXCEPT !.pc = "loaded", !.native = native, !.bad = ~file.ok,
                                                 !.reg = file.reg]]
        /\ UNCHANGED <<file, cmd, confirmed>>

\* Mutant: read again for every question.
RegistryNow(h) == IF file.ok THEN file.reg ELSE hook[h].reg

\* The registry a later step of the same hook works with.
RegistryOf(h) == hook[h].reg

\* collectPolicyVerdicts: every active policy provider but the authoritative
\* one, and every advisory provider; a failure is recorded and ignored.
Advise(h) ==
    LET asked == Active(RegistryOf(h), "policy") \ activeAuthoritative(RegistryOf(h))
        feeds == Active(RegistryOf(h), "advisory")
    IN  /\ hook[h].pc = "loaded"
        /\ \E raised \in {invokePolicy(p).says \cap {"ask", "deny"} # {} : p \in {p \in Replies : asked # {}}}
                         \cup {Alarming(p) : p \in {p \in Assessments : feeds # {}}} \cup {FALSE} :
              hook' = [hook EXCEPT ![h] = [@ EXCEPT !.pc = "advised", !.asked = asked \cup feeds,
                                                    !.verdict = composed(hook[h].native, raised)]]
        /\ UNCHANGED <<file, cmd, confirmed>>

\* A damaged registry replaces the decision by an ask, or a deny when managed.
FailClosed(h) ==
    /\ hook[h].pc = "advised" /\ hook[h].bad
    /\ hook' = [hook EXCEPT ![h] = [@ EXCEPT !.pc = "decided", !.verdict = IF Managed THEN "deny" ELSE "ask"]]
    /\ UNCHANGED <<file, cmd, confirmed>>

\* The authoritative verdict replaces the decision.
Delegate(h) ==
    /\ hook[h].pc = "advised" /\ ~hook[h].bad
    /\ \E n \in activeAuthoritative(RegistryOf(h)), out \in Replies :
          hook' = [hook EXCEPT ![h] = [@ EXCEPT !.pc = "decided", !.decider = n, !.reply = out,
                                                !.verdict = resolveAuthoritative(RegistryOf(h), n, out)]]
    /\ UNCHANGED <<file, cmd, confirmed>>

KeepNative(h) ==
    /\ hook[h].pc = "advised" /\ ~hook[h].bad /\ activeAuthoritative(RegistryOf(h)) = {}
    /\ hook' = [hook EXCEPT ![h].pc = "decided"]
    /\ UNCHANGED <<file, cmd, confirmed>>

\* go DispatchEffects: the goroutine starts, and Evaluate returns at once.
Dispatch(h) ==
    /\ hook[h].pc = "decided"
    /\ hook' = [hook EXCEPT ![h] = [@ EXCEPT !.pc = "returning", !.block = "due"]]
    /\ UNCHANGED <<file, cmd, confirmed>>

\* The goroutine asks each effect provider to block what was denied ...
Block(h) ==
    /\ hook[h].pc \in {"returning", "answered"} /\ hook[h].block = "due"
    /\ \E done \in {b \in {"applied", "failed"} : hook[h].verdict = "deny" /\ Active(hook[h].reg, "effect") # {}}
                   \cup {b \in {"skipped"} : hook[h].verdict # "deny" \/ Active(hook[h].reg, "effect") = {}} :
          hook' = [hook EXCEPT ![h].block = done]
    /\ UNCHANGED <<file, cmd, confirmed>>

\* ... then one goroutine per export provider tells it the decision.
Export(h, n) ==
    /\ hook[h].pc \in {"returning", "answered"} /\ hook[h].block \notin {"none", "due"}
    /\ n \in Active(hook[h].reg, "export") \ hook[h].told
    /\ hook' = [hook EXCEPT ![h].told = @ \cup {n}]
    /\ UNCHANGED <<file, cmd, confirmed>>

Answer(h) ==
    /\ hook[h].pc = "returning"
    /\ hook' = [hook EXCEPT ![h].pc = "answered"]
    /\ UNCHANGED <<file, cmd, confirmed>>

\* The process ends, and its goroutines with it.
Exit(h) ==
    /\ hook[h].pc = "answered"
    /\ hook' = [hook EXCEPT ![h].pc = "gone"]
    /\ UNCHANGED <<file, cmd, confirmed>>

-----------------------------------------------------------------------------
CommandStep(c) == Load(c) \/ Confirm(c) \/ Cancel(c) \/ Save(c) \/ SaveFails(c)
HookStep(h) ==
    \/ LoadRegistry(h) \/ Advise(h) \/ FailClosed(h) \/ Delegate(h) \/ KeepNative(h)
    \/ Dispatch(h) \/ Block(h) \/ Answer(h) \/ Exit(h) \/ \E n \in Names : Export(h, n)

Next ==
    \/ \E c \in Commands : CommandStep(c)
    \/ \E h \in Hooks : HookStep(h)
    \/ Damage

Spec == Init /\ [][Next]_vars

-----------------------------------------------------------------------------
(***************************************************************************)
(* Properties.                                                             *)
(***************************************************************************)
Authorities(reg) == {n \in Names : reg[n].auth}
OneAuthority(reg) == \A m, n \in Names : reg[m].auth /\ reg[n].auth => m = n

\* Whatever commands race, no registry that was ever written names two
\* authoritative providers (SetAuthority: "the registry can never hold two
\* authoritative entries"), and none an operator did not confirm.
AtMostOneAuthority == OneAuthority(file.reg) /\ Authorities(file.reg) \subseteq confirmed

\* One evaluation never counts a provider twice: the one whose verdict
\* replaced the decision was not also folded in as advice, whatever
\* `sir provider` wrote between the two questions.
OneRole == \A h \in Hooks : hook[h].decider \notin hook[h].asked

\* Nothing but a provider's own allow lets an action through that was
\* delegated to it: an error, a timeout, silence or a verdict that is no
\* verdict holds the action, and a stricter verdict among several wins.
OnlyAllowGrants ==
    \A h \in Hooks :
        hook[h].decider # "none" /\ hook[h].verdict = "allow"
            => LET p == hook[h].reply
               IN  p.end = "ok" /\ Len(p.out) = 1 /\ "allow" \in Elements(p.out[1].says)
                   /\ Elements(p.out[1].says) \cap {"ask", "deny"} = {}

\* A damaged registry never makes a decision milder than it would have been
\* (policy_providers.go: the caller "MUST fail closed").  It does: a native
\* deny becomes an ask.
CorruptKeepsDeny ==
    \A h \in Hooks : hook[h].bad /\ hook[h].native = "deny" /\ hook[h].pc \notin {"new", "loaded"} => hook[h].verdict = "deny"

\* A verdict that is not one of the three holds the action (authoritative.go:
\* "itself a fail-closed signal").  It is dropped instead.
TypoFailsClosed ==
    \A h \in Hooks : hook[h].decider # "none" /\ (\E i \in DOMAIN hook[h].reply.out : "typo" \in Elements(hook[h].reply.out[i].says)) => hook[h].verdict # "allow"

\* A denied action was blocked by the effect provider, or its failure known,
\* before the agent has its answer (evaluate.go: "invoked synchronously
\* before returning").  It need not be.
BlockBeforeAnswer == \A h \in Hooks : hook[h].pc = "answered" /\ hook[h].verdict = "deny" => hook[h].block # "due"
=============================================================================

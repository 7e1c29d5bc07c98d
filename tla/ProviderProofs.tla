--------------------------- MODULE ProviderProofs ---------------------------
(***************************************************************************)
(* Proofs about the providers and the kernel engine that hears them.  The  *)
(* registry, for any set of providers, any number of unlocked commands and *)
(* hooks; the engine and its users, for any signals, modes, scopes,        *)
(* providers and number of calls: the port decides as the original         *)
(* wherever both read the signals alike, taint outlives every call in      *)
(* between, and what sir says of its providers is true.                    *)
(***************************************************************************)
EXTENDS Plugins, FiniteSetTheorems, SequenceTheorems, WellFoundedInduction, TLAPS

Entries == [here : BOOLEAN, enabled : BOOLEAN, auth : BOOLEAN, onfail : {"ask", "deny"}, health : {"unknown", "checked"}]
Registries == [Names -> Entries]
CommandRecords == [pc : {"new", "work", "save", "done"}, o : Ops \cup {[op |-> "none"]}, reg : Registries]

\* What every registry in a file or in a command's memory satisfies: one
\* authority at most, a policy provider, and one of those in ok.
Sane(reg, ok) ==
    /\ reg \in Registries /\ OneAuthority(reg) /\ Authorities(reg) \subseteq ok
    /\ \A n \in Names : reg[n].auth => Kind[n] = "policy"

\* A command under way works on a sane copy, and grants authority only to a
\* policy provider, by the time it saves to a confirmed one.
Sound(c) ==
    cmd[c].pc \in {"work", "save"} =>
        /\ cmd[c].o \in Ops /\ Sane(cmd[c].reg, confirmed)
        /\ cmd[c].o.op = "authoritative" =>
              Kind[cmd[c].o.name] = "policy" /\ (cmd[c].pc = "save" => cmd[c].o.name \in confirmed)

RegistryInv ==
    /\ file \in [ok : BOOLEAN, reg : Registries] /\ Sane(file.reg, confirmed)
    /\ cmd \in [Commands -> CommandRecords] /\ \A c \in Commands : Sound(c)

-----------------------------------------------------------------------------
(***************************************************************************)
(* The registry's operations keep it sane.                                 *)
(***************************************************************************)
\* An empty registry is sound.
LEMMA EmptySane == \A ok : Sane(emptyRegistry, ok)
BY DEF Sane, emptyRegistry, Absent, Registries, Entries, OneAuthority, Authorities

\* A registry stays sane when the developer consents to more.
LEMMA SaneGrows == ASSUME NEW reg, NEW ok, NEW more, Sane(reg, ok), ok \subseteq more PROVE Sane(reg, more)
BY DEF Sane

\* Nothing but SetAuthority gives a provider authority it did not have.
LEMMA NoNewAuthority ==
    ASSUME NEW reg, NEW ok, Sane(reg, ok), NEW new \in Registries, \A n \in Names : new[n].auth => reg[n].auth
    PROVE  Sane(new, ok)
BY DEF Sane, OneAuthority, Authorities

\* Adding and removing a provider give no authority (Add, Remove).
LEMMA AddSane ==
    ASSUME NEW reg, NEW ok, Sane(reg, ok), NEW n \in Names
    PROVE  Sane(Add(reg, n), ok) /\ Sane(Remove(reg, n), ok)
<1>1. Add(reg, n) \in Registries /\ \A k \in Names : Add(reg, n)[k].auth => reg[k].auth
  BY DEF Add, Fresh, Absent, Sane, Registries, Entries
<1>2. Remove(reg, n) \in Registries /\ \A k \in Names : Remove(reg, n)[k].auth => reg[k].auth
  BY DEF Remove, Absent, Sane, Registries, Entries
<1> QED BY <1>1, <1>2, NoNewAuthority

\* Enabling and disabling one give no authority (Enable, Disable).
LEMMA EnableSane ==
    ASSUME NEW reg, NEW ok, Sane(reg, ok), NEW n \in Names
    PROVE  Sane(Enable(reg, n), ok) /\ Sane(Disable(reg, n), ok)
<1>1. Enable(reg, n) \in Registries /\ \A k \in Names : Enable(reg, n)[k].auth => reg[k].auth
  BY DEF Enable, Sane, Registries, Entries
<1>2. Disable(reg, n) \in Registries /\ \A k \in Names : Disable(reg, n)[k].auth => reg[k].auth
  BY DEF Disable, Sane, Registries, Entries
<1> QED BY <1>1, <1>2, NoNewAuthority

\* A health report and a demotion give no authority (UpdateHealth, Demote).
LEMMA HealthSane ==
    ASSUME NEW reg, NEW ok, Sane(reg, ok), NEW n \in Names
    PROVE  Sane(UpdateHealth(reg, n), ok) /\ Sane(Demote(reg, n), ok)
<1>1. UpdateHealth(reg, n) \in Registries /\ \A k \in Names : UpdateHealth(reg, n)[k].auth => reg[k].auth
  BY DEF UpdateHealth, Sane, Registries, Entries
<1>2. Demote(reg, n) \in Registries /\ \A k \in Names : Demote(reg, n)[k].auth => reg[k].auth
  BY DEF Demote, Sane, Registries, Entries
<1> QED BY <1>1, <1>2, NoNewAuthority

\* Two policy providers never both keep authority: the one that gets it takes
\* it from every other.
LEMMA SetAuthoritySane ==
    ASSUME NEW reg, NEW ok, Sane(reg, ok), NEW n \in Names, n \in ok, Kind[n] = "policy", NEW onfail \in {"ask", "deny"}
    PROVE  Sane(SetAuthority(reg, n, onfail), ok)
<1> DEFINE new == SetAuthority(reg, n, onfail)
<1>1. new \in Registries BY DEF SetAuthority, Sane, Registries, Entries
<1>2. \A k \in Names : new[k].auth => k = n
  BY DEF SetAuthority, Sane, Registries, Entries
<1> QED BY <1>1, <1>2 DEF Sane, OneAuthority, Authorities

\* Every `sir provider` command leaves a sane registry (cmdProvider).
LEMMA CommandSane ==
    ASSUME NEW o \in Ops, NEW reg, NEW ok, Sane(reg, ok),
           o.op = "authoritative" => Kind[o.name] = "policy" /\ o.name \in ok
    PROVE  Sane(cmdProvider(o, reg).reg, ok)
<1> DEFINE after == cmdProvider(o, reg).reg
<1> USE OpAssumption DEF Yields
<1>1. CASE o.op = "install"
  BY <1>1, AddSane, HealthSane DEF cmdProvider, cmdProviderInstall
<1>2. CASE o.op = "with_provider"
  BY <1>2, AddSane, HealthSane DEF cmdProvider, registerProviderFromInstall
<1>3. CASE o.op = "uninstall" BY <1>3, AddSane DEF cmdProvider, cmdProviderUninstall
<1>4. CASE o.op = "enable" BY <1>4, EnableSane DEF cmdProvider, cmdProviderEnable
<1>5. CASE o.op = "use" BY <1>5, EnableSane DEF cmdProvider, cmdProviderUse
<1>6. CASE o.op = "disable" BY <1>6, EnableSane DEF cmdProvider, cmdProviderDisable
<1>7. CASE o.op = "swap"
  <2>1. Sane(Disable(reg, o.name), ok) BY EnableSane
  <2>2. Sane(Swap(reg, o.name, o.other), ok) BY <2>1, EnableSane DEF Swap
  <2> QED BY <1>7, <2>2 DEF cmdProvider, cmdProviderSwap
<1>8. CASE o.op = "authoritative"
  BY <1>8, SetAuthoritySane DEF cmdProvider, cmdProviderAuthoritative
<1>9. CASE o.op = "advisory" BY <1>9, HealthSane DEF cmdProvider, cmdProviderAdvisory
<1>10. CASE o.op = "configure" BY <1>10 DEF cmdProvider, cmdProviderConfigure
<1>11. CASE o.op = "status"
  <2>1. after \in Registries /\ \A k \in Names : after[k].auth => reg[k].auth
    BY <1>11 DEF cmdProvider, cmdProviderStatus, ByName, Sane, Registries, Entries
  <2> QED BY <2>1, NoNewAuthority
<1> QED BY <1>1, <1>2, <1>3, <1>4, <1>5, <1>6, <1>7, <1>8, <1>9, <1>10, <1>11

-----------------------------------------------------------------------------
(***************************************************************************)
(* The commands.                                                           *)
(***************************************************************************)
\* Every step of a command keeps the invariant, failing saves included.
LEMMA CommandKeeps ==
    ASSUME RegistryInv, NEW c \in Commands, CommandStep(c)
    PROVE  RegistryInv'
<1> USE DEF RegistryInv
<1>0. Done \in CommandRecords /\ Done.pc = "done"
  BY EmptySane DEF Done, NewCommand, CommandRecords, Sane
<1>1. CASE Load(c)
  <2>1. PICK o \in Ops :
            cmd' = [cmd EXCEPT ![c] = IF file.ok /\ ~cmdProvider(o, file.reg).refused
                                      THEN [pc |-> "work", o |-> o, reg |-> file.reg] ELSE Done]
    BY <1>1 DEF Load
  <2>2. UNCHANGED <<file, confirmed>> BY <1>1 DEF Load
  <2>3. CASE cmd' = [cmd EXCEPT ![c] = Done]
    BY <1>0, <2>2, <2>3 DEF Sound
  <2>4. CASE /\ ~cmdProvider(o, file.reg).refused
             /\ cmd' = [cmd EXCEPT ![c] = [pc |-> "work", o |-> o, reg |-> file.reg]]
    <3>1. o.op = "authoritative" => Kind[o.name] = "policy"
      BY <2>4 DEF cmdProvider, cmdProviderAuthoritative, Yields
    <3>2. [pc |-> "work", o |-> o, reg |-> file.reg] \in CommandRecords
      BY DEF CommandRecords, Sane
    <3>3. Sound(c)' BY <2>2, <2>4, <3>1 DEF Sound
    <3>4. \A d \in Commands \ {c} : Sound(d)' BY <2>2, <2>4 DEF Sound
    <3> QED BY <2>2, <2>4, <3>2, <3>3, <3>4
  <2> QED BY <2>1, <2>3, <2>4
<1>2. CASE Confirm(c)
  <2>1. confirmed \subseteq confirmed' BY <1>2 DEF Confirm
  <2>2. Sane(file.reg, confirmed') BY <2>1, SaneGrows
  <2>3. cmd' \in [Commands -> CommandRecords] BY <1>2 DEF Confirm, CommandRecords
  <2>4. \A d \in Commands : cmd'[d].o = cmd[d].o /\ cmd'[d].reg = cmd[d].reg
    BY <1>2 DEF Confirm, CommandRecords
  <2>5. \A d \in Commands \ {c} : cmd'[d] = cmd[d] BY <1>2 DEF Confirm
  <2>6. \A d \in Commands \ {c} : Sound(d)' BY <2>1, <2>5, SaneGrows DEF Sound
  <2>7. Sound(c)'
    <3>1. Sound(c) /\ cmd[c].pc = "work" BY <1>2 DEF Confirm
    <3>2. Sane(cmd[c].reg, confirmed') BY <2>1, <3>1, SaneGrows DEF Sound
    <3>3. cmd[c].o.op = "authoritative" => cmd[c].o.name \in confirmed' BY <1>2 DEF Confirm
    <3> QED BY <2>4, <3>1, <3>2, <3>3 DEF Sound
  <2>8. UNCHANGED file BY <1>2 DEF Confirm
  <2> QED BY <2>2, <2>3, <2>6, <2>7, <2>8
<1>3. CASE Cancel(c) \/ SaveFails(c)
  BY <1>0, <1>3 DEF Cancel, SaveFails, Sound
<1>4. CASE Save(c)
  <2>1. Sane(cmdProvider(cmd[c].o, cmd[c].reg).reg, confirmed)
    BY <1>4, CommandSane DEF Save, Sound
  <2>2. file' = [ok |-> TRUE, reg |-> cmdProvider(cmd[c].o, cmd[c].reg).reg] /\ UNCHANGED confirmed
    BY <1>4 DEF Save, Intact
  <2>3. cmd' = [cmd EXCEPT ![c] = Done] BY <1>4 DEF Save
  <2> QED BY <1>0, <2>1, <2>2, <2>3 DEF Sound, Sane
<1> QED BY <1>1, <1>2, <1>3, <1>4 DEF CommandStep

\* Every step keeps the invariant of the registry.
LEMMA RegistryKeeps == RegistryInv /\ [Next]_vars => RegistryInv'
<1> HAVE RegistryInv /\ [Next]_vars
<1>1. ASSUME NEW c \in Commands, CommandStep(c) PROVE RegistryInv'
  BY <1>1, CommandKeeps
<1>2. ASSUME NEW h \in Hooks, HookStep(h) PROVE UNCHANGED <<file, cmd, confirmed>>
  BY <1>2 DEF HookStep, LoadRegistry, Advise, FailClosed, Delegate, KeepNative, Dispatch, Block, Answer, Exit, Export
<1>3. UNCHANGED <<file, cmd, confirmed>> => RegistryInv'
  BY DEF RegistryInv, Sound
<1>4. ASSUME Damage PROVE RegistryInv'
  <2>1. file' = [ok |-> FALSE, reg |-> emptyRegistry] /\ UNCHANGED <<cmd, confirmed>>
    BY <1>4 DEF Damage, Corrupt
  <2> QED BY <2>1, EmptySane DEF RegistryInv, Sound, Sane
<1> QED BY <1>1, <1>2, <1>3, <1>4 DEF Next, vars

\* The invariant of the registry holds in the initial states.
LEMMA RegistryStarts == Init => RegistryInv
<1> HAVE Init
<1>1. file \in [ok : BOOLEAN, reg : Registries]
  BY DEF Init, Intact, Fresh, Absent, Registries, Entries
<1>2. Sane(file.reg, confirmed)
  <2>1. file.reg \in Registries BY <1>1
  <2>2. ASSUME NEW n \in Names PROVE ~file.reg[n].auth
    BY DEF Init, Intact, Fresh, Absent
  <2> QED BY <2>1, <2>2 DEF Sane, OneAuthority, Authorities
<1>3. NewCommand \in CommandRecords /\ NewCommand.pc = "new"
  BY EmptySane DEF NewCommand, CommandRecords, Sane
<1>4. cmd \in [Commands -> CommandRecords] /\ \A c \in Commands : cmd[c].pc = "new"
  BY <1>3 DEF Init
<1>5. \A c \in Commands : Sound(c) BY <1>4 DEF Sound
<1> QED BY <1>1, <1>2, <1>4, <1>5 DEF RegistryInv

\* However many `sir provider` commands load, prompt and save at the same
\* time without a lock, and whatever fails or is damaged in between, the
\* registry never names two authoritative providers and never one that no
\* operator confirmed (registry.go SetAuthority, cmdProviderAuthoritative).
THEOREM SingleAuthority == Spec => []AtMostOneAuthority
<1>1. RegistryInv => AtMostOneAuthority BY DEF RegistryInv, Sane, AtMostOneAuthority
<1> QED BY <1>1, RegistryStarts, RegistryKeeps, PTL DEF Spec

-----------------------------------------------------------------------------
(***************************************************************************)
(* The hooks.  A hook that loaded a registry keeps it; what it asked, whom *)
(* it delegated to and the verdict it got all belong to that registry.     *)
(***************************************************************************)
Natively == (UNION {Natives[h] : h \in Hooks}) \cup {"none", "allow", "ask", "deny"}
HookRecords ==
    [pc : {"new", "loaded", "advised", "decided", "returning", "answered", "gone"}, reg : Registries, bad : BOOLEAN,
     native : Natively, asked : SUBSET Names,
     decider : Names \cup {"none"}, reply : Replies \cup {Ran(<<>>)},
     verdict : Natively,
     block : {"none", "due", "applied", "failed", "skipped"}, told : SUBSET Names]

\* Everyone whose advice a hook with this registry may fold in.
Advisers(reg) == (Active(reg, "policy") \ activeAuthoritative(reg)) \cup Active(reg, "advisory")

\* Whom a hook delegated to, and what came of it.
Delegated(r) ==
    /\ r.decider \in activeAuthoritative(r.reg) /\ r.reply \in Replies
    /\ r.verdict = resolveAuthoritative(r.reg, r.decider, r.reply)

Consistent(r) ==
    /\ r.asked \subseteq Advisers(r.reg) /\ (r.pc \in {"new", "loaded"} => r.asked = {})
    /\ r.pc \in {"new", "loaded", "advised"} => r.decider = "none"
    /\ r.decider # "none" => Delegated(r)

HookInv == hook \in [Hooks -> HookRecords] /\ \A h \in Hooks : Consistent(hook[h])

\* Without a verdict of its own the decision point holds the action; with
\* one, the strictest of them counts.
LEMMA AllowIsItsOwn ==
    ASSUME NEW reg \in Registries, NEW n \in Names, NEW p \in Replies, resolveAuthoritative(reg, n, p) = "allow"
    PROVE  /\ p.end = "ok" /\ Len(p.out) = 1 /\ "allow" \in Elements(p.out[1].says)
           /\ Elements(p.out[1].says) \cap {"ask", "deny"} = {}
<1> DEFINE says == invokePolicy(p).says
<1>1. FailureVerdict(reg, n) # "allow" BY DEF FailureVerdict, Registries, Entries
<1>2. says # {} /\ Strictest(says) = "allow" BY <1>1 DEF resolveAuthoritative
<1>3. CallError(p) = "none" /\ says = toVerdicts(p.out) BY <1>2 DEF invokePolicy
<1>4. p.out \in Seq(Elements(p.out)) /\ p.end \in {"ok", "hang", "exit", "missing"} BY ReplyAssumption
<1>5. p.out # <<>> BY <1>2, <1>3 DEF toVerdicts
<1>6. runProvider(p) = "none" /\ Whole(p) BY <1>3, <1>5 DEF CallError
<1>7. p.end = "ok" BY <1>4, <1>6 DEF runProvider
<1>8. Len(p.out) = 1 /\ DOMAIN p.out = {1} BY <1>4, <1>6 DEF Whole
<1>9. says = Elements(p.out[1].says) \cap {"allow", "ask", "deny"}
  BY <1>3, <1>8 DEF toVerdicts, validVerdicts
<1>10. says \cap {"ask", "deny"} = {} BY <1>2 DEF Strictest
<1> QED BY <1>2, <1>7, <1>8, <1>9, <1>10

\* The invariant of the hooks holds in the initial states.
LEMMA HooksStart == Init => HookInv
<1> HAVE Init
<1>1. ASSUME NEW h \in Hooks PROVE hook[h] \in HookRecords /\ Consistent(hook[h])
  <2>1. emptyRegistry \in Registries BY EmptySane DEF Sane
  <2>2. hook[h] = [pc |-> "new", reg |-> emptyRegistry, bad |-> FALSE, native |-> "none", asked |-> {},
                   decider |-> "none", reply |-> Ran(<<>>), verdict |-> "none", block |-> "none", told |-> {}]
    BY DEF Init
  <2>3. hook[h] \in HookRecords BY <2>1, <2>2 DEF HookRecords, Natively
  <2> QED BY <2>2, <2>3 DEF Consistent
<1> QED BY <1>1 DEF HookInv, Init

\* A step of one hook leaves the others alone.
LEMMA OneHook ==
    ASSUME HookInv, NEW h \in Hooks, NEW r \in HookRecords, Consistent(r), hook' = [hook EXCEPT ![h] = r]
    PROVE  HookInv'
BY DEF HookInv

\* A step of a hook that asks the provider keeps the invariant of the hooks.
LEMMA HookStepKeeps ==
    ASSUME RegistryInv, HookInv, NEW h \in Hooks, HookStep(h)
    PROVE  HookInv'
<1> DEFINE r == hook[h]
<1>0. r \in HookRecords /\ Consistent(r) BY DEF HookInv
<1>1. CASE LoadRegistry(h)
  <2>1. PICK native \in Natives[h] :
            r.pc = "new" /\ hook' = [hook EXCEPT ![h] = [r EXCEPT !.pc = "loaded", !.native = native, !.bad = ~file.ok,
                                                                 !.reg = file.reg]]
    BY <1>1 DEF LoadRegistry
  <2> DEFINE s == [r EXCEPT !.pc = "loaded", !.native = native, !.bad = ~file.ok, !.reg = file.reg]
  <2>5. native \in Natively BY DEF Natively
  <2>6. file.reg \in Registries /\ (~file.ok) \in BOOLEAN BY DEF RegistryInv
  <2>2. s \in HookRecords BY <1>0, <2>5, <2>6 DEF HookRecords
  <2>3. s.pc = "loaded" /\ s.asked = {} /\ s.decider = "none" BY <1>0, <2>1 DEF HookRecords, Consistent
  <2>4. Consistent(s) BY <2>3 DEF Consistent
  <2> QED BY <2>1, <2>2, <2>4, OneHook
<1>2. CASE Advise(h)
  <2> DEFINE all == Advisers(r.reg)
  <2>1. PICK raised :
            hook' = [hook EXCEPT ![h] = [r EXCEPT !.pc = "advised", !.asked = all, !.verdict = composed(r.native, raised)]]
    BY <1>2 DEF Advise, RegistryOf, Advisers
  <2> DEFINE s == [r EXCEPT !.pc = "advised", !.asked = all, !.verdict = composed(r.native, raised)]
  <2>2. r.pc = "loaded" BY <1>2 DEF Advise
  <2>3. all \subseteq Names BY DEF Advisers, Active
  <2>4. composed(r.native, raised) \in Natively
    BY <1>0 DEF composed, HookRecords, Natively
  <2>5. s \in HookRecords BY <1>0, <2>3, <2>4 DEF HookRecords
  <2>6. s.pc = "advised" /\ s.asked = Advisers(s.reg) /\ s.decider = "none"
    BY <1>0, <2>2 DEF HookRecords, Consistent
  <2>7. Consistent(s) BY <2>6 DEF Consistent
  <2> QED BY <2>1, <2>5, <2>7, OneHook
<1>3. CASE FailClosed(h)
  <2> DEFINE s == [r EXCEPT !.pc = "decided", !.verdict = IF Managed THEN "deny" ELSE "ask"]
  <2>1. s \in HookRecords BY <1>0 DEF HookRecords, Natively
  <2>2. s.decider = "none" /\ s.reg = r.reg /\ s.asked = r.asked /\ s.pc = "decided"
    BY <1>0, <1>3 DEF FailClosed, HookRecords, Consistent
  <2>3. Consistent(s) BY <1>0, <2>2 DEF Consistent
  <2> QED BY <1>3, <2>1, <2>3, OneHook DEF FailClosed
<1>4. CASE Delegate(h)
  <2>1. PICK n \in activeAuthoritative(r.reg), out \in Replies :
            hook' = [hook EXCEPT ![h] = [r EXCEPT !.pc = "decided", !.decider = n, !.reply = out,
                                                  !.verdict = resolveAuthoritative(r.reg, n, out)]]
    BY <1>4 DEF Delegate, RegistryOf
  <2> DEFINE s == [r EXCEPT !.pc = "decided", !.decider = n, !.reply = out, !.verdict = resolveAuthoritative(r.reg, n, out)]
  <2>2. n \in Names BY DEF activeAuthoritative, Active
  <2>3. r.reg[n].onfail \in {"ask", "deny"} BY <1>0, <2>2 DEF HookRecords, Registries, Entries
  <2>4. resolveAuthoritative(r.reg, n, out) \in {"allow", "ask", "deny"}
    BY <2>3 DEF resolveAuthoritative, FailureVerdict, Strictest
  <2>5. s \in HookRecords BY <1>0, <2>2, <2>4 DEF HookRecords, Natively
  <2>6. /\ s.decider = n /\ s.reg = r.reg /\ s.asked = r.asked /\ s.pc = "decided" /\ s.reply = out
        /\ s.verdict = resolveAuthoritative(r.reg, n, out)
    BY <1>0 DEF HookRecords
  <2>7. Consistent(s) BY <1>0, <2>1, <2>6 DEF Consistent, Delegated
  <2> QED BY <2>1, <2>5, <2>7, OneHook
<1>5. ASSUME NEW s \in HookRecords, s.pc \notin {"new", "loaded", "advised"}, hook' = [hook EXCEPT ![h] = s],
             s.reg = r.reg, s.asked = r.asked, s.decider = r.decider, s.reply = r.reply, s.verdict = r.verdict
      PROVE  HookInv'
  <2>1. Consistent(s) BY <1>0, <1>5 DEF Consistent, Delegated
  <2> QED BY <1>5, <2>1, OneHook
<1>6. CASE KeepNative(h)
  <2>1. [r EXCEPT !.pc = "decided"] \in HookRecords BY <1>0 DEF HookRecords
  <2>2. hook' = [hook EXCEPT ![h] = [r EXCEPT !.pc = "decided"]] BY <1>6 DEF KeepNative
  <2> QED BY <1>0, <1>5, <2>1, <2>2 DEF HookRecords
<1>7. CASE Dispatch(h)
  <2>1. [r EXCEPT !.pc = "returning", !.block = "due"] \in HookRecords BY <1>0 DEF HookRecords
  <2>2. hook' = [hook EXCEPT ![h] = [r EXCEPT !.pc = "returning", !.block = "due"]] BY <1>7 DEF Dispatch
  <2> QED BY <1>0, <1>5, <2>1, <2>2 DEF HookRecords
<1>8. CASE Block(h)
  <2>1. r.pc \in {"returning", "answered"} BY <1>8 DEF Block
  <2>2. PICK done \in {"applied", "failed", "skipped"} : hook' = [hook EXCEPT ![h] = [r EXCEPT !.block = done]]
    BY <1>8 DEF Block
  <2>3. [r EXCEPT !.block = done] \in HookRecords BY <1>0 DEF HookRecords
  <2> QED BY <1>0, <1>5, <2>1, <2>2, <2>3 DEF HookRecords
<1>9. CASE \E n \in Names : Export(h, n)
  <2>1. PICK n \in Names : r.pc \in {"returning", "answered"} /\ hook' = [hook EXCEPT ![h] = [r EXCEPT !.told = @ \cup {n}]]
    BY <1>9 DEF Export
  <2>2. [r EXCEPT !.told = @ \cup {n}] \in HookRecords BY <1>0 DEF HookRecords
  <2> QED BY <1>0, <1>5, <2>1, <2>2 DEF HookRecords
<1>10. CASE Answer(h)
  <2>1. [r EXCEPT !.pc = "answered"] \in HookRecords BY <1>0 DEF HookRecords
  <2>2. hook' = [hook EXCEPT ![h] = [r EXCEPT !.pc = "answered"]] BY <1>10 DEF Answer
  <2> QED BY <1>0, <1>5, <2>1, <2>2 DEF HookRecords
<1>11. CASE Exit(h)
  <2>1. [r EXCEPT !.pc = "gone"] \in HookRecords BY <1>0 DEF HookRecords
  <2>2. hook' = [hook EXCEPT ![h] = [r EXCEPT !.pc = "gone"]] BY <1>11 DEF Exit
  <2> QED BY <1>0, <1>5, <2>1, <2>2 DEF HookRecords
<1> QED BY <1>1, <1>2, <1>3, <1>4, <1>6, <1>7, <1>8, <1>9, <1>10, <1>11 DEF HookStep

\* Every step keeps the invariant of the hooks.
LEMMA HooksKeep == RegistryInv /\ HookInv /\ [Next]_vars => HookInv'
<1> HAVE RegistryInv /\ HookInv /\ [Next]_vars
<1>1. ASSUME NEW h \in Hooks, HookStep(h) PROVE HookInv' BY <1>1, HookStepKeeps
<1>2. ASSUME NEW c \in Commands, CommandStep(c) PROVE UNCHANGED hook
  BY <1>2 DEF CommandStep, Load, Confirm, Cancel, Save, SaveFails
<1>3. Damage => UNCHANGED hook BY DEF Damage
<1>4. UNCHANGED hook => HookInv' BY DEF HookInv
<1> QED BY <1>1, <1>2, <1>3, <1>4 DEF Next, vars

\* One evaluation asks one registry: a provider whose verdict replaced the
\* decision is never also counted as advice, whatever any number of `sir
\* provider` commands write between the two (evaluate.go loads the registry
\* once; collectPolicyVerdicts leaves the authoritative provider out).
THEOREM RolesExclude == Spec => []OneRole
<1>1. RegistryInv /\ HookInv => OneRole
  <2> HAVE RegistryInv /\ HookInv
  <2> SUFFICES ASSUME NEW h \in Hooks PROVE hook[h].decider \notin hook[h].asked BY DEF OneRole
  <2>1. Consistent(hook[h]) /\ hook[h] \in HookRecords BY DEF HookInv
  <2>2. CASE hook[h].decider = "none" BY <2>1, <2>2, NameAssumption DEF HookRecords
  <2>3. CASE hook[h].decider # "none"
    <3>1. hook[h].decider \in activeAuthoritative(hook[h].reg) BY <2>1, <2>3 DEF Consistent, Delegated
    <3>2. hook[h].decider \notin Advisers(hook[h].reg)
      BY <3>1 DEF Advisers, activeAuthoritative, Active
    <3> QED BY <2>1, <3>2 DEF Consistent
  <2> QED BY <2>2, <2>3
<1> QED BY <1>1, RegistryStarts, RegistryKeeps, HooksStart, HooksKeep, PTL DEF Spec

\* An action delegated to an authoritative provider proceeds only on that
\* provider's own allow: no crash, hang, garbage, silence, unknown word or
\* mixed answer, and no registry, grants it (resolveAuthoritative).
THEOREM AllowIsExplicit == Spec => []OnlyAllowGrants
<1>1. HookInv => OnlyAllowGrants
  <2> HAVE HookInv
  <2> SUFFICES ASSUME NEW h \in Hooks, hook[h].decider # "none", hook[h].verdict = "allow"
               PROVE  LET p == hook[h].reply
                      IN  p.end = "ok" /\ Len(p.out) = 1 /\ "allow" \in Elements(p.out[1].says)
                          /\ Elements(p.out[1].says) \cap {"ask", "deny"} = {}
    BY DEF OnlyAllowGrants
  <2>1. Delegated(hook[h]) /\ hook[h] \in HookRecords BY DEF HookInv, Consistent
  <2>2. hook[h].reg \in Registries /\ hook[h].decider \in Names /\ hook[h].reply \in Replies
    BY <2>1 DEF HookRecords, Delegated
  <2> QED BY <2>1, <2>2, AllowIsItsOwn DEF Delegated
<1> QED BY <1>1, RegistryStarts, RegistryKeeps, HooksStart, HooksKeep, PTL DEF Spec

-----------------------------------------------------------------------------
Inputs == Calls \cup Cases \cup Replayed

-----------------------------------------------------------------------------
(***************************************************************************)
(* The least and the greatest of the positions of a sequence.              *)
(***************************************************************************)
\* Min returns the smallest element of a nonempty set of natural numbers, by
\* the library's fact that strict subsets of finite sets are well-founded.
LEMMA LeastElement ==
    ASSUME NEW T \in SUBSET Nat, T # {}
    PROVE  Min(T) \in T /\ \A y \in T : Min(T) <= y
<1> DEFINE UpTo(n) == 0..n
           Segments == {UpTo(n) : n \in T}
<1>0. \A n \in Nat : UpTo(n) \subseteq Nat /\ IsFiniteSet(UpTo(n))
  BY FS_Interval
<1>1. Segments \subseteq FiniteSubsetsOf(Nat) /\ Segments # {}
  BY <1>0 DEF FiniteSubsetsOf
<1>2. PICK z \in Segments : \A y \in Segments : ~(<<y, z>> \in StrictSubsetOrdering(Nat))
  BY <1>1, FS_StrictSubsetOrderingWellFounded, WFMin, Zenon
<1>3. PICK n \in T : z = UpTo(n)
  BY <1>2
<1>4. ASSUME NEW m \in T, m < n PROVE FALSE
  <2>1. n \in UpTo(n) /\ n \notin UpTo(m) /\ UpTo(m) \subseteq UpTo(n) /\ UpTo(n) \subseteq Nat
    BY <1>4
  <2>2. <<UpTo(m), UpTo(n)>> \in StrictSubsetOrdering(Nat)
    BY <2>1 DEF StrictSubsetOrdering
  <2>3. QED
    BY <1>2, <1>3, <2>2
<1>5. \A y \in T : n <= y
  BY <1>4
<1>6. QED
  BY <1>5 DEF Min

\* Max returns the largest element of a nonempty set of positions.
LEMMA GreatestElement ==
    ASSUME NEW n \in Nat, NEW T \in SUBSET (1..n), T # {}
    PROVE  Max(T) \in T /\ \A y \in T : Max(T) >= y
<1> DEFINE Mirror == {n - i : i \in T}
<1>0. \A i \in T : i \in Nat /\ n - i \in Nat
  OBVIOUS
<1>1. Mirror \in SUBSET Nat /\ Mirror # {} /\ T \subseteq Nat
  BY <1>0
<1>2. Min(Mirror) \in Mirror /\ \A y \in Mirror : Min(Mirror) <= y
  BY <1>1, LeastElement
<1>3. PICK m \in T : Min(Mirror) = n - m
  BY <1>2
<1>4. \A y \in T : m >= y
  <2> TAKE y \in T
  <2>1. n - y \in Mirror /\ n \in Nat /\ y \in Nat /\ m \in Nat
    BY <1>1
  <2>2. n - m <= n - y
    BY <1>2, <1>3, <2>1
  <2>3. QED
    BY <2>1, <2>2
<1>5. QED
  BY <1>4 DEF Max

-----------------------------------------------------------------------------
(***************************************************************************)
(* What the engines read in the signals.                                   *)
(***************************************************************************)
IsInput(in) ==
    /\ in.signals \in Seq(Elements(in.signals))
    /\ {"signals", "taint", "caps", "resolved", "advice"} \subseteq DOMAIN in

\* Normalizing keeps every usable signal.
LEMMA UsableKept ==
    ASSUME NEW S, NEW sigs \in Seq(S), NEW i \in DOMAIN sigs, Usable(sigs[i])
    PROVE  /\ DOMAIN NormalizeSignals(sigs) \subseteq Nat
           /\ \E k \in DOMAIN NormalizeSignals(sigs) : NormalizeSignals(sigs)[k] = sigs[i]
<1> DEFINE kept == {j \in DOMAIN sigs : Usable(sigs[j])}
           UpTo(j) == {l \in kept : l <= j}
           Rk(j) == Cardinality(UpTo(j))
           Nth(k) == CHOOSE j \in kept : Rk(j) = k
<1>1. DOMAIN sigs = 1..Len(sigs) /\ Len(sigs) \in Nat
  OBVIOUS
<1>2. kept \in SUBSET (1..Len(sigs)) /\ i \in kept /\ kept \subseteq Nat
  BY <1>1
<1>3. NormalizeSignals(sigs) = [k \in 1..Cardinality(kept) |-> sigs[Nth(k)]]
  BY DEF NormalizeSignals
<1> HIDE DEF kept
<1>4. IsFiniteSet(1..Len(sigs))
  BY <1>1, FS_Interval
<1>5. IsFiniteSet(kept)
  BY <1>2, <1>4, FS_Subset
<1>6. Cardinality(kept) \in Nat
  BY <1>5, FS_CardinalityType
<1>7. \A j \in kept : UpTo(j) \in SUBSET kept /\ j \in UpTo(j)
  BY <1>2
<1>8. \A a, b \in kept : a < b => UpTo(a) \in SUBSET UpTo(b) /\ b \notin UpTo(a)
  BY <1>2
<1> HIDE DEF UpTo
<1>9. \A j \in kept : IsFiniteSet(UpTo(j)) /\ Rk(j) \in Nat /\ Rk(j) <= Cardinality(kept)
  BY <1>5, <1>7, FS_Subset, FS_CardinalityType
<1>10. \A j \in kept : Rk(j) # 0
  BY <1>7, <1>9, FS_EmptySet
<1>11. \A a, b \in kept : a < b => Rk(a) # Rk(b)
  <2> TAKE a, b \in kept
  <2> HAVE a < b
  <2>1. UpTo(a) # UpTo(b) /\ UpTo(a) \in SUBSET UpTo(b)
    BY <1>7, <1>8
  <2>2. QED
    BY <1>9, <2>1, FS_Subset
<1> HIDE DEF Rk
<1>12. Rk(i) \in 1..Cardinality(kept)
  BY <1>2, <1>6, <1>9, <1>10
<1>13. \A j \in kept : Rk(j) = Rk(i) => j = i
  BY <1>2, <1>11
<1>14. Nth(Rk(i)) = i
  BY <1>2, <1>13
<1> HIDE DEF Nth
<1>15. QED
  BY <1>3, <1>6, <1>12, <1>14

\* Normalizing usable signals changes nothing.
LEMMA UsableUnchanged ==
    ASSUME NEW S, NEW sigs \in Seq(S), \A i \in DOMAIN sigs : Usable(sigs[i])
    PROVE  NormalizeSignals(sigs) = sigs
<1> DEFINE kept == {j \in DOMAIN sigs : Usable(sigs[j])}
           UpTo(j) == {l \in kept : l <= j}
           Nth(k) == CHOOSE j \in kept : Cardinality(UpTo(j)) = k
<1>1. DOMAIN sigs = 1..Len(sigs) /\ Len(sigs) \in Nat /\ sigs = [k \in 1..Len(sigs) |-> sigs[k]]
  OBVIOUS
<1>2. kept = 1..Len(sigs)
  BY <1>1
<1>3. NormalizeSignals(sigs) = [k \in 1..Cardinality(kept) |-> sigs[Nth(k)]]
  BY DEF NormalizeSignals
<1> HIDE DEF kept
<1>4. Cardinality(1..Len(sigs)) = Len(sigs)
  <2>1. \A n \in Nat : Cardinality(1..n) = n
    BY FS_Interval
  <2>2. QED
    BY <1>1, <2>1
<1>5. \A j \in kept : UpTo(j) = 1..j
  BY <1>1, <1>2
<1> HIDE DEF UpTo
<1>6. \A j \in kept : Cardinality(UpTo(j)) = j
  BY <1>1, <1>2, <1>5, FS_Interval
<1>7. \A k \in 1..Len(sigs) : Nth(k) = k
  BY <1>2, <1>6
<1> HIDE DEF Nth
<1>8. QED
  BY <1>1, <1>2, <1>3, <1>4, <1>7

\* The first signal of a kind is one of the signals.
LEMMA TypeIsOfSignal ==
    ASSUME NEW S, NEW sigs \in Seq(S)
    PROVE  \/ PrimaryActionType(sigs) = "unknown"
           \/ \E i \in DOMAIN sigs : PrimaryActionType(sigs) = sigs[i].type
<1> DEFINE typed == {i \in DOMAIN sigs : Typed(sigs[i])}
<1>1. typed \in SUBSET Nat /\ typed \subseteq DOMAIN sigs
  OBVIOUS
<1>2. PrimaryActionType(sigs) = IF typed = {} THEN "unknown" ELSE sigs[Min(typed)].type
  BY DEF PrimaryActionType
<1> HIDE DEF typed
<1>3. typed # {} => Min(typed) \in typed
  BY <1>1, LeastElement
<1>4. QED
  BY <1>1, <1>2, <1>3

\* The scope of a call is one that is kept.
LEMMA ScopeIsKept ==
    ASSUME NEW in \in Calls
    PROVE  TaintScopeFromSignals(in.signals) \in Scopes
<1> DEFINE sigs == in.signals
           scoped == {i \in DOMAIN sigs : Scoped(sigs[i])}
<1>1. sigs \in Seq(Elements(sigs))
  BY InputsAssumption
<1>2. scoped \in SUBSET Nat /\ scoped \subseteq DOMAIN sigs
  BY <1>1
<1>3. TaintScopeFromSignals(sigs) = IF scoped = {} THEN "global" ELSE sigs[Min(scoped)].scope
  BY DEF TaintScopeFromSignals
<1> HIDE DEF scoped
<1>4. scoped # {} => Min(scoped) \in scoped
  BY <1>2, LeastElement
<1>5. \A i \in DOMAIN sigs : sigs[i].scope \in Scopes
  BY DEF Scopes
<1>6. "global" \in Scopes
  BY DEF Scopes
<1>7. QED
  BY <1>2, <1>3, <1>4, <1>5, <1>6

Ranked(sigs) == {i \in DOMAIN sigs : sigs[i].sens \in DOMAIN Rank}
Tops(sigs) == {i \in Ranked(sigs) : \A j \in Ranked(sigs) : Rank[sigs[j].sens] <= Rank[sigs[i].sens]}

\* A signal of the highest sensitivity: the engine's answer is that of one of
\* the signals with the highest rank.
LEMMA SensitivityIsTop ==
    ASSUME NEW sigs, DOMAIN sigs \subseteq Nat
    PROVE  IF Tops(sigs) = {} THEN PrimarySensitivity(sigs) = "low"
           ELSE \E i \in Tops(sigs) : PrimarySensitivity(sigs) = sigs[i].sens
<1>1. Tops(sigs) \in SUBSET Nat
  BY DEF Tops, Ranked
<1>2. Tops(sigs) # {} => Min(Tops(sigs)) \in Tops(sigs)
  BY <1>1, LeastElement
<1>3. PrimarySensitivity(sigs) = IF Tops(sigs) = {} THEN "low" ELSE sigs[Min(Tops(sigs))].sens
  BY DEF PrimarySensitivity, Tops, Ranked, Zenon
<1>4. QED
  BY <1>2, <1>3

\* A credential outranks everything.
LEMMA CredentialIsTop ==
    ASSUME NEW sigs, DOMAIN sigs \subseteq Nat, NEW k \in DOMAIN sigs, sigs[k].sens = "credential"
    PROVE  PrimarySensitivity(sigs) = "credential"
<1>1. \A x \in DOMAIN Rank : Rank[x] <= 3 /\ (3 <= Rank[x] => x = "credential")
  BY DEF Rank
<1>2. Rank["credential"] = 3 /\ "credential" \in DOMAIN Rank
  BY DEF Rank
<1>3. k \in Ranked(sigs)
  BY <1>2 DEF Ranked
<1>4. k \in Tops(sigs)
  BY <1>1, <1>2, <1>3 DEF Tops, Ranked
<1>5. \A i \in Tops(sigs) : sigs[i].sens = "credential"
  BY <1>1, <1>2, <1>3 DEF Tops, Ranked
<1>6. QED
  BY <1>4, <1>5, SensitivityIsTop

-----------------------------------------------------------------------------
(***************************************************************************)
(* The two engines.                                                        *)
(***************************************************************************)
\* The sensitivities something depends on.
Weighty == {"credential", "external_network", "high", "critical"}

\* Both engines pick a signal that is ranked highest; where no two of rank 2
\* differ, they pick the same sensitivity, as far as anything depends on it.
LEMMA SensitivityAgrees ==
    ASSUME NEW S, NEW sigs \in Seq(S),
           \A i \in DOMAIN sigs : sigs[i].sens # "critical",
           ~\E i, j \in DOMAIN sigs : sigs[i].sens = "high" /\ sigs[j].sens = "external_network"
    PROVE  \/ PrimarySensitivity(sigs) = primary_sensitivity(sigs)
           \/ {PrimarySensitivity(sigs), primary_sensitivity(sigs)} \cap Weighty = {}
<1> DEFINE go == PrimarySensitivity(sigs)
           rust == primary_sensitivity(sigs)
           top == {i \in DOMAIN sigs : \A j \in DOMAIN sigs : rank(sigs[j].sens) <= rank(sigs[i].sens)}
<1>1. DOMAIN sigs = 1..Len(sigs) /\ Len(sigs) \in Nat
  OBVIOUS
<1>2. top \in SUBSET (1..Len(sigs))
  BY <1>1
<1>3. rust = IF top = {} THEN "low" ELSE sigs[Max(top)].sens
  BY DEF primary_sensitivity
<1>4. IF top = {} THEN rust = "low" ELSE \E i \in top : rust = sigs[i].sens
  <2> HIDE DEF top, rust
  <2>1. top # {} => Max(top) \in top
    BY <1>1, <1>2, GreatestElement
  <2>2. QED
    BY <1>3, <2>1
<1>5. IF Tops(sigs) = {} THEN go = "low" ELSE \E i \in Tops(sigs) : go = sigs[i].sens
  BY <1>1, SensitivityIsTop
<1>6. \A x : rank(x) \in 0..3 /\ (x \in DOMAIN Rank => rank(x) = Rank[x]) /\ (x \notin DOMAIN Rank => rank(x) = 0)
  BY DEF rank, Rank
<1>7. /\ \A x : rank(x) = 3 <=> x = "credential"
      /\ \A x : rank(x) = 2 <=> x \in {"high", "external_network"}
  BY DEF rank, Rank
<1>8. \A x \in Weighty \ {"critical"} : x \in DOMAIN Rank /\ rank(x) >= 2
  BY DEF rank, Rank, Weighty
<1>0. "low" \notin Weighty
  BY DEF Weighty
<1>12. SUFFICES go = rust \/ (go \notin Weighty /\ rust \notin Weighty)
  OBVIOUS
<1> HIDE DEF go, rust, top
<1>13. \A i : i \in top <=> i \in DOMAIN sigs /\ \A j \in DOMAIN sigs : rank(sigs[j].sens) <= rank(sigs[i].sens)
  BY DEF top
<1>9. CASE \A i \in DOMAIN sigs : rank(sigs[i].sens) < 2
  <2>1. \A i \in DOMAIN sigs : sigs[i].sens \notin Weighty
    <3>1. "critical" \notin {sigs[i].sens : i \in DOMAIN sigs}
      OBVIOUS
    <3>2. QED
      BY <1>6, <1>8, <1>9, <3>1
  <2>2. Tops(sigs) \subseteq DOMAIN sigs /\ top \subseteq DOMAIN sigs
    BY <1>13 DEF Tops, Ranked
  <2>3. QED
    BY <1>0, <1>4, <1>5, <2>1, <2>2
<1>10. CASE \E k \in DOMAIN sigs : rank(sigs[k].sens) >= 2
  <2>1. PICK k \in DOMAIN sigs : rank(sigs[k].sens) >= 2
    BY <1>10
  <2>2. k \in Ranked(sigs)
    BY <1>6, <2>1 DEF Ranked
  <2>3. \A i \in top : rank(sigs[i].sens) >= 2 /\ \A j \in DOMAIN sigs : rank(sigs[j].sens) <= rank(sigs[i].sens)
    BY <1>6, <1>13, <2>1
  <2>4. \A i \in Tops(sigs) : i \in DOMAIN sigs /\ rank(sigs[i].sens) >= 2
                                /\ \A j \in Ranked(sigs) : rank(sigs[j].sens) <= rank(sigs[i].sens)
    BY <1>6, <2>1, <2>2 DEF Tops, Ranked
  <2>5. top \subseteq Ranked(sigs) /\ top \subseteq DOMAIN sigs
    BY <1>6, <1>13, <2>3 DEF Ranked
  <2>6. top = Tops(sigs)
    <3>1. top \subseteq Tops(sigs)
      BY <1>6, <2>3, <2>5 DEF Tops, Ranked
    <3>2. ASSUME NEW i \in Tops(sigs), NEW j \in DOMAIN sigs PROVE rank(sigs[j].sens) <= rank(sigs[i].sens)
      <4>1. CASE j \in Ranked(sigs)
        BY <2>4, <4>1
      <4>2. CASE j \notin Ranked(sigs)
        BY <1>6, <2>4, <4>2 DEF Ranked
      <4>3. QED
        BY <4>1, <4>2
    <3>3. QED
      BY <1>13, <2>4, <3>1, <3>2
  <2>7. top # {}
    <3>1. CASE \E i \in DOMAIN sigs : rank(sigs[i].sens) = 3
      <4>1. PICK i \in DOMAIN sigs : rank(sigs[i].sens) = 3
        BY <3>1
      <4>2. \A j \in DOMAIN sigs : rank(sigs[j].sens) <= 3
        BY <1>6
      <4>3. QED
        BY <1>13, <4>1, <4>2
    <3>2. CASE ~\E i \in DOMAIN sigs : rank(sigs[i].sens) = 3
      <4>1. \A j \in DOMAIN sigs : rank(sigs[j].sens) <= 2
        BY <1>6, <3>2
      <4>2. k \in top
        BY <1>6, <1>13, <2>1, <4>1
      <4>3. QED
        BY <4>2
    <3>3. QED
      BY <3>1, <3>2
  <2>8. PICK i \in top, j \in top : rust = sigs[i].sens /\ go = sigs[j].sens
    BY <1>4, <1>5, <2>6, <2>7
  <2>9. rank(sigs[i].sens) = rank(sigs[j].sens) /\ rank(sigs[i].sens) \in {2, 3}
    BY <1>6, <2>3, <2>5, <2>8
  <2>10. QED
    BY <1>7, <2>5, <2>8, <2>9
<1>11. QED
  BY <1>6, <1>9, <1>10

\* The port decides as the original wherever the two read the signals alike.
LEMMA EnginesMeet ==
    ASSUME NEW in, in.signals \in Seq(Elements(in.signals)), ReadAlike(in)
    PROVE  Agree(Evaluate(in), evaluate(in)) /\ Evaluate(in).type = evaluate(in).type
<1> DEFINE sigs == in.signals
           type == PrimaryActionType(sigs)
           go   == PrimarySensitivity(sigs)
           rust == primary_sensitivity(sigs)
           Labels(s) == Labelize(type, s, sigs, in.resolved)
<1>1. NormalizeSignals(sigs) = sigs
  BY UsableUnchanged DEF ReadAlike, Usable
<1>2. type # "mcp_trust"
  BY TypeIsOfSignal DEF ReadAlike
<1>3. /\ go # rust => go \notin {"credential", "external_network", "high", "critical"}
      /\ go # rust => rust \notin {"credential", "external_network", "high", "critical"}
  BY SensitivityAgrees DEF ReadAlike, Sensitivities, Weighty
<1>4. Labels(go) = Labels(rust)
  BY <1>3 DEF Labelize
<1>5. matches(type, Labels(go)) = rule_matches(Labels(rust))
  BY <1>2, <1>4 DEF matches, rule_matches
<1>6. computeNewTaint(go) = computeNewTaint(rust)
  BY <1>3 DEF computeNewTaint
<1>7. \A v, a : applyLowConfidenceEscalation(v, a, go) = applyLowConfidenceEscalation(v, a, rust)
  BY <1>3 DEF applyLowConfidenceEscalation
<1>8. Evaluate(in) = Decide(in, sigs, type, go, matches(type, Labels(go)), Labels(go))
  BY <1>1 DEF Evaluate
<1>9. evaluate(in) = Decide(in, sigs, type, rust, rule_matches(Labels(rust)), Labels(rust))
  BY DEF evaluate
<1> HIDE DEF type, go, rust, Labels
<1>10. Evaluate(in) = evaluate(in)
  BY <1>4, <1>5, <1>6, <1>7, <1>8, <1>9 DEF Decide
<1>11. QED
  BY <1>10 DEF Agree

\* What a replay puts to an engine, and the same without advice.
LEMMA OnlyAdviceMatters ==
    ASSUME NEW in, IsInput(in), NEW asked, NEW plain,
           \E a, c : asked = [in EXCEPT !.advice = a, !.caps = c], plain = [in EXCEPT !.advice = {}]
    PROVE  /\ asked.signals = in.signals /\ asked.taint = in.taint /\ asked.resolved = in.resolved
           /\ plain.signals = in.signals /\ plain.taint = in.taint /\ plain.resolved = in.resolved
           /\ plain.advice = {}
BY DEF IsInput

\* The verdict before advice.
Native(in, sigs, type, sens, hits, labels) ==
    applyLowConfidenceEscalation(EvaluatePolicy(hits, labels, in.taint).verdict, AttributionConfidence(sigs), sens)

\* Before advice the engine answers with one of its three verdicts.
LEMMA NativeVerdicts ==
    ASSUME NEW in, NEW sigs, NEW type, NEW sens, NEW hits, NEW labels
    PROVE  Native(in, sigs, type, sens, hits, labels) \in {"allow", "ask", "deny"}
BY DEF Native, applyLowConfidenceEscalation, EvaluatePolicy

\* Without advice the verdict is the native one.
LEMMA NoAdviceIsNative ==
    ASSUME NEW v, NEW tainted, NEW type
    PROVE  composePolicyVerdicts({}, v, tainted, type) = v
BY DEF composePolicyVerdicts

\* Advice is composed with the verdict that the engine gives without it.
LEMMA EvaluateComposes ==
    ASSUME NEW x, NEW y, x.signals = y.signals, x.taint = y.taint, x.resolved = y.resolved, y.advice = {}
    PROVE  /\ Evaluate(x).verdict = composePolicyVerdicts(x.advice, Evaluate(y).verdict, x.taint, Evaluate(x).type)
           /\ Evaluate(y).verdict \in {"allow", "ask", "deny"}
           /\ evaluate(x).verdict = composePolicyVerdicts(x.advice, evaluate(y).verdict, x.taint, evaluate(x).type)
           /\ evaluate(y).verdict \in {"allow", "ask", "deny"}
<1>1. \A in, sigs, type, sens, hits, labels :
        Decide(in, sigs, type, sens, hits, labels).verdict =
            composePolicyVerdicts(in.advice, Native(in, sigs, type, sens, hits, labels), in.taint, type)
  BY DEF Decide, Native
<1>2. \A in, sigs, type, sens, hits, labels : Decide(in, sigs, type, sens, hits, labels).type = type
  BY DEF Decide
<1>3. \A sigs, type, sens, hits, labels : Native(x, sigs, type, sens, hits, labels) = Native(y, sigs, type, sens, hits, labels)
  BY DEF Native
<1>4. \A sigs, type, sens, hits, labels :
        /\ Decide(y, sigs, type, sens, hits, labels).verdict = Native(y, sigs, type, sens, hits, labels)
        /\ Decide(y, sigs, type, sens, hits, labels).verdict \in {"allow", "ask", "deny"}
  <2> TAKE sigs, type, sens, hits, labels
  <2>1. Decide(y, sigs, type, sens, hits, labels).verdict =
            composePolicyVerdicts({}, Native(y, sigs, type, sens, hits, labels), y.taint, type)
    BY <1>1
  <2>2. Decide(y, sigs, type, sens, hits, labels).verdict = Native(y, sigs, type, sens, hits, labels)
    BY <2>1, NoAdviceIsNative
  <2>3. QED
    BY <2>2, NativeVerdicts
<1>5. \A sigs, type, sens, hits, labels :
        LET dx == Decide(x, sigs, type, sens, hits, labels)
            dy == Decide(y, sigs, type, sens, hits, labels)
        IN  /\ dx.verdict = composePolicyVerdicts(x.advice, dy.verdict, x.taint, dx.type)
            /\ dy.verdict \in {"allow", "ask", "deny"}
  BY <1>1, <1>2, <1>3, <1>4
<1>6. QED
  BY <1>5 DEF Evaluate, evaluate

-----------------------------------------------------------------------------
(***************************************************************************)
(* The three users of the engine do not touch each other's state.          *)
(***************************************************************************)
Tools ==
    /\ use = "tools" /\ ~report.on
    /\ \/ \E in \in Cases : runParityCheck(in) \/ runCaptureTier(in)
       \/ \E req \in Requests, p \in Advices : cmdPolicyExplain(req, p)
       \/ \E t \in Tried : TestProvider(t) \/ cmdProviderVerifyContainment(t)

Replaying ==
    \/ \E r \in Replays, live \in BOOLEAN, effects \in EffectReplies : Start(r, live, effects)
    \/ \E r \in Replays, in \in Replayed, engine \in {"go", "rust"}, l \in Live : EvaluateCase(r, in, engine, l)
    \/ \E r \in Replays : RustFails(r) \/ ReadLast(r) \/ AppendEntry(r)

\* A tool writes its report.
LEMMA ToolsReport == Tools => UNCHANGED <<taint, read, last, replay, ledger>>
<1> DEFINE same == UNCHANGED <<taint, read, last, replay, ledger>>
<1>1. \A r : Report(r) => same
  BY DEF Report
<1> HIDE DEF same
<1>2. \A in : runParityCheck(in) \/ runCaptureTier(in) => same
  BY <1>1 DEF runParityCheck, runCaptureTier
<1>3. \A req, p : cmdPolicyExplain(req, p) => same
  BY <1>1 DEF cmdPolicyExplain
<1>4. \A t : TestProvider(t) \/ cmdProviderVerifyContainment(t) => same
  BY <1>1 DEF TestProvider, cmdProviderVerifyContainment
<1>5. QED
  BY <1>2, <1>3, <1>4 DEF Tools, same

\* A replay writes its ledger.
LEMMA ReplayWrites == Replaying => UNCHANGED <<taint, read, last, report>>
<1>1. \A r, live, effects : Start(r, live, effects) => UNCHANGED <<taint, read, last, report>>
  BY DEF Start
<1>2. \A r, in, engine, l : EvaluateCase(r, in, engine, l) => UNCHANGED <<taint, read, last, report>>
  BY DEF EvaluateCase
<1>3. \A r : RustFails(r) \/ ReadLast(r) \/ AppendEntry(r) => UNCHANGED <<taint, read, last, report>>
  BY DEF RustFails, ReadLast, AppendEntry
<1>4. QED
  BY <1>1, <1>2, <1>3 DEF Replaying

-----------------------------------------------------------------------------
(***************************************************************************)
(* kernel.Process.                                                         *)
(***************************************************************************)
TaintInv ==
    /\ DOMAIN taint = Scopes
    /\ \A s \in read : s \in Scopes /\ "credential_access" \in taint[s]
    /\ TaintedEgressDenied

\* A call to the network in a tainted scope: the cross-action rule denies, and
\* nothing after it loosens the verdict.
LEMMA TaintDenies ==
    ASSUME NEW in, "credential_access" \in in.taint,
           PrimarySensitivity(NormalizeSignals(in.signals)) = "external_network"
    PROVE  Evaluate(in).verdict = "deny"
<1> DEFINE sigs   == NormalizeSignals(in.signals)
           type   == PrimaryActionType(sigs)
           labels == Labelize(type, PrimarySensitivity(sigs), sigs, in.resolved)
<1>1. "external_egress" \in labels
  BY DEF Labelize
<1>2. \A hits : EvaluatePolicy(hits, labels, in.taint).verdict = "deny"
  BY <1>1 DEF EvaluatePolicy, CrossAction
<1>3. Evaluate(in).verdict =
          composePolicyVerdicts(in.advice,
              applyLowConfidenceEscalation(EvaluatePolicy(matches(type, labels), labels, in.taint).verdict,
                                           AttributionConfidence(sigs), PrimarySensitivity(sigs)), in.taint, type)
  BY DEF Evaluate, Decide
<1>4. QED
  BY <1>2, <1>3 DEF applyLowConfidenceEscalation, composePolicyVerdicts

\* A credential among the usable signals taints, however weak they are.
LEMMA CredentialTaints ==
    ASSUME NEW in \in Calls, NEW i \in DOMAIN in.signals, Usable(in.signals[i]), in.signals[i].sens = "credential",
           NEW t
    PROVE  "credential_access" \in Evaluate([in EXCEPT !.taint = t]).taint
<1>1. in.signals \in Seq(Elements(in.signals)) /\ [in EXCEPT !.taint = t].signals = in.signals
  BY InputsAssumption
<1>2. PrimarySensitivity(NormalizeSignals(in.signals)) = "credential"
  BY <1>1, UsableKept, CredentialIsTop
<1>3. QED
  BY <1>1, <1>2 DEF Evaluate, Decide, computeNewTaint

\* kernel.Process adds to the taint of its scope and denies egress from a
\* scope in which a credential was read.
LEMMA ProcessKeepsTaint ==
    ASSUME TaintInv, NEW in \in Calls, Process(in)
    PROVE  TaintInv'
<1> DEFINE scope == TaintScopeFromSignals(in.signals)
           asked == [in EXCEPT !.taint = collectSessionTaint(scope)]
           out   == Evaluate(asked)
<1>1. scope \in Scopes
  BY ScopeIsKept
<1>2. /\ taint' = [taint EXCEPT ![scope] = @ \cup out.taint]
      /\ read' = IF \E i \in DOMAIN in.signals : Usable(in.signals[i]) /\ in.signals[i].sens = "credential"
                 THEN read \cup {scope} ELSE read
      /\ last' = [on |-> TRUE, scope |-> scope, in |-> in, verdict |-> CheckFriction(out.verdict, prompts[scope]),
                  tainted |-> scope \in read, downgrade |-> UnavailableRequiredEffects(in.mode, out.effects)]
  BY DEF Process, Taint
<1>3. asked.taint = taint[scope] /\ asked.signals = in.signals
  BY InputsAssumption DEF collectSessionTaint
<1>4. (\E i \in DOMAIN in.signals : Usable(in.signals[i]) /\ in.signals[i].sens = "credential")
        => "credential_access" \in out.taint
  BY CredentialTaints
<1>5. scope \in read /\ PrimarySensitivity(NormalizeSignals(in.signals)) = "external_network" => out.verdict = "deny"
  BY <1>3, TaintDenies DEF TaintInv
<1> HIDE DEF scope, out
<1>6. DOMAIN taint' = Scopes /\ \A s \in read' : s \in Scopes /\ "credential_access" \in taint'[s]
  BY <1>1, <1>2, <1>4 DEF TaintInv
<1>7. TaintedEgressDenied'
  BY <1>2, <1>5 DEF TaintedEgressDenied, CheckFriction
<1>8. QED
  BY <1>6, <1>7 DEF TaintInv

\* After a credential was read in a scope, Process denies every later egress
\* of that scope, whatever the mode and however many calls lie in between
\* (Taint, crossActionTaint in pkg/kernel).
THEOREM TaintStays == KernelSpec => []TaintedEgressDenied
<1>1. KernelInit => TaintInv
  BY DEF KernelInit, TaintInv, TaintedEgressDenied, None
<1>2. TaintInv /\ [KernelNext]_kernelVars => TaintInv'
  <2> SUFFICES ASSUME TaintInv, [KernelNext]_kernelVars PROVE TaintInv'
    OBVIOUS
  <2>1. ASSUME NEW in \in Calls, Process(in) PROVE TaintInv'
    BY <2>1, ProcessKeepsTaint
  <2>2. ASSUME UNCHANGED <<taint, read, last>> PROVE TaintInv'
    BY <2>2 DEF TaintInv, TaintedEgressDenied
  <2>3. CASE \E s \in Scopes : WindowPasses(s)
    BY <2>2, <2>3 DEF WindowPasses
  <2>4. CASE Tools
    BY <2>2, <2>4, ToolsReport
  <2>5. CASE Replaying
    BY <2>2, <2>5, ReplayWrites
  <2>6. CASE UNCHANGED kernelVars
    BY <2>2, <2>6 DEF kernelVars
  <2>7. QED
    BY <2>1, <2>3, <2>4, <2>5, <2>6 DEF KernelNext, Tools, Replaying
<1>3. TaintInv => TaintedEgressDenied
  BY DEF TaintInv
<1>4. QED
  BY <1>1, <1>2, <1>3, PTL DEF KernelSpec

-----------------------------------------------------------------------------
(***************************************************************************)
(* The reports of the harness and the author's tools.                      *)
(***************************************************************************)
\* A conformant case that is read alike gets one decision.
LEMMA ParityReport ==
    ASSUME NEW in \in Cases, runParityCheck(in)
    PROVE  (EnginesAgreeUntied /\ ExplainAgrees /\ TestedIsUnderstood)'
<1>1. report' = [on |-> TRUE, tool |-> "parity", in |-> in, go |-> Evaluate(in), rust |-> evaluate(in)]
  BY DEF runParityCheck, Report, evalWithRust
<1>2. ReadAlike(in) => Agree(Evaluate(in), evaluate(in))
  BY EnginesMeet, InputsAssumption
<1>3. EnginesAgreeUntied'
  BY <1>1, <1>2, Zenon DEF EnginesAgreeUntied
<1>4. QED
  BY <1>1, <1>3 DEF ExplainAgrees, TestedIsUnderstood

\* The second line of a test is the provider's answer to the fixture.
LEMMA SecondLine ==
    ASSUME NEW t \in Tried, Len(t.caps.out) = 1, Len(t.reply.out) = 1
    PROVE  IF t.caps.end = "ok" /\ t.reply.end = "ok"
           THEN roundTripProvider(t.caps, t.reply) = t.reply.out[1] ELSE roundTripProvider(t.caps, t.reply) = Garbage
<1>1. t.caps.out \in Seq(Elements(t.caps.out)) /\ t.reply.out \in Seq(Elements(t.reply.out))
  BY TriedAssumption
<1>2. Len(t.caps.out \o t.reply.out) = 2 /\ (t.caps.out \o t.reply.out)[2] = t.reply.out[1]
  <2> DEFINE S == Elements(t.caps.out) \cup Elements(t.reply.out)
  <2>1. t.caps.out \in Seq(S) /\ t.reply.out \in Seq(S)
    BY <1>1
  <2> HIDE DEF S
  <2>2. PICK a \in Seq(S), b \in Seq(S) : a = t.caps.out /\ b = t.reply.out
    BY <2>1
  <2>3. Len(a) = 1 /\ Len(b) = 1
    BY <2>2
  <2>4. Len(a \o b) = 2
    <3>1. Len(a \o b) = Len(a) + Len(b)
      BY ConcatProperties
    <3>2. QED
      BY <2>3, <3>1
  <2>5. (a \o b)[2] = b[1]
    <3>1. 2 \in 1..Len(a) + Len(b) /\ ~(2 <= Len(a)) /\ 2 - Len(a) = 1
      BY <2>3
    <3>2. (a \o b)[2] = IF 2 <= Len(a) THEN a[2] ELSE b[2 - Len(a)]
      BY <3>1, ConcatProperties
    <3>3. QED
      BY <3>1, <3>2
  <2>6. QED
    BY <2>2, <2>4, <2>5
<1>3. QED
  BY <1>2 DEF roundTripProvider

\* A reply of one valid line is read as it was tested.
LEMMA TestReport ==
    ASSUME NEW t \in Tried, TestProvider(t)
    PROVE  (EnginesAgreeUntied /\ ExplainAgrees /\ TestedIsUnderstood)'
<1> DEFINE p == t.reply
           d == p.out[1]
           v == d.says[1]
<1>1. report' = [on |-> TRUE, tool |-> "test", t |-> t,
                 passed |-> cmdProviderTest(t.kind, t.fixture, t.caps, t.reply, t.declared)]
  BY DEF TestProvider, Report
<1>2. SUFFICES ASSUME cmdProviderTest(t.kind, t.fixture, t.caps, t.reply, t.declared), t.kind # "signal",
                      Len(t.caps.out) = 1, Len(p.out) = 1, t.fixture \in {"policy", "advisory", "effect"}
               PROVE  /\ t.fixture = "policy" => invokePolicy(p) = [failed |-> "none", says |-> {v}]
                      /\ t.fixture = "advisory" => InvokeAdvisory(p) = [failed |-> "none", level |-> v]
                      /\ t.fixture = "effect" => InvokeEffect(p) = [failed |-> FALSE, status |-> v]
  <2>1. TestedIsUnderstood'
    BY <1>1, <1>2 DEF TestedIsUnderstood
  <2>2. QED
    BY <1>1, <2>1 DEF EnginesAgreeUntied, ExplainAgrees
<1>3. d.json /\ Len(d.says) = 1 /\ p.end = "ok" /\ roundTripProvider(t.caps, p) = d
  <2>1. ~Garbage.json
    BY DEF Garbage, Doc
  <2>2. roundTripProvider(t.caps, p).json
    BY <1>2 DEF cmdProviderTest, testPolicyFixture, testAdvisoryFixture, testEffectFixture
  <2>3. roundTripProvider(t.caps, p) = d /\ p.end = "ok"
    BY <1>2, <2>1, <2>2, SecondLine
  <2>4. QED
    BY <1>2, <2>2, <2>3 DEF cmdProviderTest, testPolicyFixture, testAdvisoryFixture, testEffectFixture
<1>4. p.out \in Seq(Elements(p.out)) /\ DOMAIN p.out = {1} /\ p.out # <<>>
  BY <1>2, TriedAssumption
<1>5. d.says \in Seq(Elements(d.says)) /\ DOMAIN d.says = {1}
  <2>1. d \in Elements(p.out)
    BY <1>4 DEF Elements
  <2>2. d.says \in Seq(Elements(d.says))
    BY <2>1, TriedAssumption
  <2>3. QED
    BY <1>3, <2>2
<1>6. Whole(p) /\ Single(p) /\ runProvider(p) = "none" /\ CallError(p) = "none"
  BY <1>2, <1>3, <1>4 DEF Whole, Single, runProvider, CallError
<1>7. ASSUME t.fixture = "policy" PROVE invokePolicy(p) = [failed |-> "none", says |-> {v}]
  <2>1. v \in validVerdicts
    BY <1>2, <1>3, <1>7 DEF cmdProviderTest, testPolicyFixture
  <2>2. toVerdicts(p.out) = {v}
    BY <1>4, <1>5, <2>1 DEF toVerdicts, Elements
  <2>3. QED
    BY <1>6, <2>2 DEF invokePolicy
<1>8. ASSUME t.fixture = "advisory" PROVE InvokeAdvisory(p) = [failed |-> "none", level |-> v]
  <2>1. v \in validRisks
    BY <1>2, <1>3, <1>8 DEF cmdProviderTest, testAdvisoryFixture
  <2>2. QED
    BY <1>4, <1>6, <2>1 DEF InvokeAdvisory, normalizeRiskLevel
<1>9. InvokeEffect(p) = [failed |-> FALSE, status |-> v]
  BY <1>6 DEF InvokeEffect
<1>10. QED
  BY <1>7, <1>8, <1>9

\* Advice changes a verdict exactly when the evidence says so.
LEMMA EvidenceOfAdvice ==
    ASSUME NEW advice, NEW base \in {"allow", "ask", "deny"}, NEW taint0, NEW type, NEW final,
           final = composePolicyVerdicts(advice, base, taint0, type)
    PROVE  /\ BuildProviderPolicyEvidence(advice, final, base) # {} <=> final # base
           /\ Strictness(final) >= Strictness(base)
           /\ final # base => base = "allow" /\ final = "ask"
<1>1. IF final = base THEN TRUE ELSE base = "allow" /\ final = "ask" /\ \E v \in advice : v \in {"ask", "deny"}
  BY DEF composePolicyVerdicts
<1>2. BuildProviderPolicyEvidence(advice, final, base) # {} <=> final # base
  BY <1>1 DEF BuildProviderPolicyEvidence, providerVerdictWasUsed
<1>3. Strictness("allow") = 1 /\ Strictness("ask") = 2 /\ Strictness("deny") = 3
  BY DEF Strictness, Verdicts
<1>4. QED
  BY <1>1, <1>2, <1>3

\* `sir policy explain` gives the reason that the replay of the same request
\* would record.
LEMMA ExplainReport ==
    ASSUME NEW req \in Requests, NEW p \in Advices, cmdPolicyExplain(req, p)
    PROVE  (EnginesAgreeUntied /\ ExplainAgrees /\ TestedIsUnderstood)'
<1> DEFINE advice   == invokePolicy(p).says
           base     == evaluatePolicyRequest(req, {}).verdict
           outcome  == evaluatePolicyRequest(req, advice).verdict
           action   == actionForKernel(req.action)
           floored  == base = "allow" /\ isExplainFloored(req.taint, action)
           why      == IF advice = {} THEN "native"
                       ELSE IF outcome # base THEN "escalated"
                       ELSE IF floored THEN "suppressed"
                       ELSE IF base # "allow" THEN "cannot" ELSE "no change"
<1>1. report' = [on |-> TRUE, tool |-> "explain", req |-> req, advice |-> advice, final |-> outcome, base |-> base,
                 why |-> why]
  BY DEF cmdPolicyExplain, Report
<1>2. base \in {"allow", "ask", "deny"}
      /\ \E type : outcome = composePolicyVerdicts(advice, base, req.taint, type)
  <2> DEFINE In(a) == [mode |-> "hook_gate", flags |-> {}, signals |-> <<policySignal(req)>>, taint |-> req.taint,
                       caps |-> {}, real |-> FALSE, scoped |-> {}, resolved |-> FALSE, advice |-> a]
  <2>1. \A a : evaluatePolicyRequest(req, a) = Evaluate(In(a))
    BY DEF evaluatePolicyRequest
  <2>2. \A a : /\ In(a).signals = In({}).signals /\ In(a).taint = req.taint /\ In(a).resolved = In({}).resolved
              /\ In(a).advice = a
    OBVIOUS
  <2> HIDE DEF In
  <2>3. /\ Evaluate(In({})).verdict \in {"allow", "ask", "deny"}
        /\ Evaluate(In(advice)).verdict = composePolicyVerdicts(advice, Evaluate(In({})).verdict, req.taint,
                                                               Evaluate(In(advice)).type)
    BY <2>2, EvaluateComposes
  <2>4. QED
    BY <2>1, <2>3
<1>3. /\ BuildProviderPolicyEvidence(advice, outcome, base) # {} <=> outcome # base
      /\ outcome # base => base = "allow" /\ outcome = "ask"
  BY <1>2, EvidenceOfAdvice
<1>4. isExplainFloored(req.taint, action) <=> isCleanDeveloperWorkflow(req.taint, action)
  BY DEF isExplainFloored, isCleanDeveloperWorkflow, cleanDeveloperWorkflowActions
<1> HIDE DEF advice, base, outcome, action
<1>5. advice # {} =>
        /\ why = "suppressed" <=> DeveloperWorkflowFloorEvidence(req.taint, action, advice, base, outcome) = "protected"
        /\ why = "escalated" <=> BuildProviderPolicyEvidence(advice, outcome, base) # {}
  <2> SUFFICES ASSUME advice # {} PROVE
        /\ why = "suppressed" <=> DeveloperWorkflowFloorEvidence(req.taint, action, advice, base, outcome) = "protected"
        /\ why = "escalated" <=> BuildProviderPolicyEvidence(advice, outcome, base) # {}
    OBVIOUS
  <2>1. DeveloperWorkflowFloorEvidence(req.taint, action, advice, base, outcome) = "protected"
            <=> base = "allow" /\ outcome = "allow" /\ isExplainFloored(req.taint, action)
    BY <1>4 DEF DeveloperWorkflowFloorEvidence
  <2>2. QED
    BY <1>3, <2>1
<1> HIDE DEF why
<1>6. ExplainAgrees'
  BY <1>1, <1>5 DEF ExplainAgrees, action
<1>7. QED
  BY <1>1, <1>6 DEF EnginesAgreeUntied, TestedIsUnderstood

ReportInv == EnginesAgreeUntied /\ ExplainAgrees /\ TestedIsUnderstood

\* The reports that no property is about.
LEMMA OtherReports ==
    ASSUME NEW in, NEW t, runCaptureTier(in) \/ cmdProviderVerifyContainment(t)
    PROVE  ReportInv'
<1>1. report'.tool \in {"capture", "verify"}
  BY DEF runCaptureTier, cmdProviderVerifyContainment, Report
<1>2. QED
  BY <1>1 DEF ReportInv, EnginesAgreeUntied, ExplainAgrees, TestedIsUnderstood

\* Whatever a report says of the engines, of advice and of providers is true.
LEMMA ReportInvariant == KernelSpec => []ReportInv
<1>1. KernelInit => ReportInv
  BY DEF KernelInit, ReportInv, EnginesAgreeUntied, ExplainAgrees, TestedIsUnderstood, None
<1>2. ReportInv /\ [KernelNext]_kernelVars => ReportInv'
  <2> SUFFICES ASSUME ReportInv, [KernelNext]_kernelVars PROVE ReportInv'
    OBVIOUS
  <2>1. ASSUME UNCHANGED report PROVE ReportInv'
    BY <2>1 DEF ReportInv, EnginesAgreeUntied, ExplainAgrees, TestedIsUnderstood
  <2>2. ASSUME NEW in, Process(in) PROVE UNCHANGED report
    BY <2>2 DEF Process
  <2>3. ASSUME NEW s, WindowPasses(s) PROVE UNCHANGED report
    BY <2>3 DEF WindowPasses
  <2>4. CASE Tools
    BY <2>4, ParityReport, TestReport, ExplainReport, OtherReports DEF Tools, ReportInv
  <2>5. CASE Replaying
    BY <2>1, <2>5, ReplayWrites
  <2>6. CASE UNCHANGED kernelVars
    BY <2>1, <2>6 DEF kernelVars
  <2>7. QED
    BY <2>1, <2>2, <2>3, <2>4, <2>5, <2>6 DEF KernelNext, Tools, Replaying
<1>3. QED
  BY <1>1, <1>2, PTL DEF KernelSpec

\* The port decides as the Go engine on every conformant case that both read
\* alike (runParityCheck).
THEOREM EnginesAreOne == KernelSpec => []EnginesAgreeUntied
BY ReportInvariant, PTL DEF ReportInv

\* What `sir provider test` passes the hooks understand (testPolicyFixture,
\* testAdvisoryFixture, testEffectFixture, runProviderWithStderr).
THEOREM TestsMean == KernelSpec => []TestedIsUnderstood
BY ReportInvariant, PTL DEF ReportInv

-----------------------------------------------------------------------------
(***************************************************************************)
(* The replay.                                                             *)
(***************************************************************************)
\* How a case was judged: without advice as Go judges it where the engines
\* agree; with advice, the verdict is composed with the base verdict.
Judged(d) ==
    /\ d.advice = {} /\ ReadAlike(d.in) => d.out.verdict = Evaluate([d.in EXCEPT !.advice = {}]).verdict
    /\ d.advice # {} =>
          /\ d.base \in {"allow", "ask", "deny"}
          /\ d.out.verdict = composePolicyVerdicts(d.advice, d.base, d.in.taint, d.out.type)

Fields == {"pc", "live", "caps", "in", "failures", "advice", "out", "base", "prev"}

ReplayInv ==
    /\ DOMAIN replay = Replays /\ \A r \in Replays : DOMAIN replay[r] = Fields
    /\ \A r \in Replays : replay[r].pc \in {"decided", "append"} => Judged(replay[r])
    /\ \E S : ledger \in Seq(S)
    /\ LedgerTruthful

\* A case is judged by either engine.
LEMMA CaseJudged ==
    ASSUME ReplayInv, NEW r \in Replays, NEW in \in Replayed, NEW engine \in {"go", "rust"}, NEW l \in Live,
           EvaluateCase(r, in, engine, l)
    PROVE  ReplayInv'
<1> DEFINE d       == replay[r]
           got     == collectLivePolicyVerdicts(l)
           advice  == IF d.live THEN got.says ELSE in.advice
           asked   == [in EXCEPT !.advice = advice, !.caps = IF d.live /\ d.caps # {} THEN d.caps ELSE @]
           plain   == [asked EXCEPT !.advice = {}]
           Eval(i) == IF engine = "rust" THEN evaluate(i) ELSE Evaluate(i)
           next    == [d EXCEPT !.pc = "decided", !.in = in, !.advice = advice, !.out = Eval(asked),
                                !.failures = IF d.live THEN got.failures ELSE {},
                                !.base = IF advice = {} THEN "none" ELSE Eval(plain).verdict]
<1>1. replay' = [replay EXCEPT ![r] = next] /\ ledger' = ledger
  BY DEF EvaluateCase, evalWithRust
<1>2. DOMAIN d = Fields
  BY DEF ReplayInv
<1>3. IsInput(in)
  BY InputsAssumption DEF IsInput
<1>4. asked.advice = advice /\ DOMAIN asked = DOMAIN in
  BY <1>3 DEF IsInput
<1> DEFINE bare == [in EXCEPT !.advice = {}]
<1>5. \E a, c : asked = [in EXCEPT !.advice = a, !.caps = c]
  OBVIOUS
<1> HIDE DEF asked
<1>6. /\ asked.signals = in.signals /\ asked.taint = in.taint /\ asked.resolved = in.resolved
      /\ bare.signals = in.signals /\ bare.taint = in.taint /\ bare.resolved = in.resolved /\ bare.advice = {}
  BY <1>3, <1>5, OnlyAdviceMatters
<1>7. /\ plain.signals = in.signals /\ plain.taint = in.taint /\ plain.resolved = in.resolved /\ plain.advice = {}
  BY <1>3, <1>4, <1>6 DEF IsInput
<1> HIDE DEF plain, bare
<1>8. /\ Eval(asked).verdict = composePolicyVerdicts(advice, Eval(plain).verdict, in.taint, Eval(asked).type)
      /\ Eval(plain).verdict \in {"allow", "ask", "deny"}
  BY <1>4, <1>6, <1>7, EvaluateComposes
<1>9. advice = {} /\ ReadAlike(in) => Eval(asked).verdict = Evaluate(bare).verdict
  <2> SUFFICES ASSUME advice = {}, ReadAlike(in) PROVE Eval(asked).verdict = Evaluate(bare).verdict
    OBVIOUS
  <2>1. /\ Evaluate(asked).verdict = Evaluate(bare).verdict
        /\ evaluate(asked).verdict = evaluate(bare).verdict
    <3>1. asked.advice = {}
      BY <1>4
    <3>2. QED
      BY <1>6, <3>1, EvaluateComposes, NoAdviceIsNative
  <2>2. ReadAlike(bare)
    BY <1>6 DEF ReadAlike, Sensitivities
  <2>3. Agree(Evaluate(bare), evaluate(bare))
    BY <1>3, <1>6, <2>2, EnginesMeet DEF IsInput
  <2>4. Evaluate(bare).verdict = evaluate(bare).verdict
    BY <2>3 DEF Agree
  <2>5. QED
    BY <2>1, <2>4
<1> HIDE DEF advice, Eval
<1>10. /\ next.in = in /\ next.advice = advice /\ next.out = Eval(asked) /\ DOMAIN next = Fields
       /\ next.base = IF advice = {} THEN "none" ELSE Eval(plain).verdict
  BY <1>2 DEF Fields
<1>11. Judged(next)
  BY <1>8, <1>9, <1>10 DEF Judged, bare
<1> HIDE DEF next
<1>12. QED
  BY <1>1, <1>10, <1>11 DEF ReplayInv, LedgerTruthful

\* What an entry says.
Truthful(e) ==
    /\ e.given # {} => (e.used # {} <=> e.verdict # e.base)
    /\ e.floor = "protected" => /\ e.given # {} /\ e.verdict = "allow" /\ e.base = "allow"
                                /\ "credential_access" \notin e.in.taint
    /\ e.verdict = "allow" /\ e.base = "allow" /\ e.given \cap Raising # {} => e.floor = "protected"
    /\ e.given # {} => Strictness(e.verdict) >= Strictness(e.base)
    /\ e.given = {} /\ ReadAlike(e.in) => e.verdict = Evaluate([e.in EXCEPT !.advice = {}]).verdict

\* The entry of a judged case is truthful.
LEMMA EntryTruthful ==
    ASSUME ReplayInv, NEW r \in Replays, AppendEntry(r)
    PROVE  ReplayInv'
<1> DEFINE d == replay[r]
           e == [prev |-> d.prev, verdict |-> d.out.verdict, base |-> d.base,
                 used |-> BuildProviderPolicyEvidence(d.advice, d.out.verdict, d.base),
                 given |-> d.advice, failures |-> d.failures, in |-> d.in, live |-> d.live,
                 floor |-> DeveloperWorkflowFloorEvidence(d.in.taint, d.out.type, d.advice, d.base, d.out.verdict)]
           next == [NewReplay EXCEPT !.pc = "case", !.live = d.live, !.caps = d.caps]
<1>1. d.pc = "append" /\ ledger' = Append(ledger, e) /\ replay' = [replay EXCEPT ![r] = next]
  BY DEF AppendEntry
<1>2. Judged(d)
  BY <1>1 DEF ReplayInv
<1>3. d.advice # {} => /\ BuildProviderPolicyEvidence(d.advice, d.out.verdict, d.base) # {} <=> d.out.verdict # d.base
                       /\ Strictness(d.out.verdict) >= Strictness(d.base)
  BY <1>2, EvidenceOfAdvice DEF Judged
<1>4. Truthful(e)
  <2>1. e.floor = "protected" => /\ e.given # {} /\ e.verdict = "allow" /\ e.base = "allow"
                                 /\ "credential_access" \notin e.in.taint
    BY DEF DeveloperWorkflowFloorEvidence, isCleanDeveloperWorkflow
  <2>2. e.verdict = "allow" /\ e.base = "allow" /\ e.given \cap Raising # {} => e.floor = "protected"
    BY <1>2 DEF Judged, composePolicyVerdicts, DeveloperWorkflowFloorEvidence, Raising
  <2>3. QED
    BY <1>2, <1>3, <2>1, <2>2 DEF Truthful, Judged
<1>5. next.pc = "case" /\ DOMAIN next = Fields
  BY DEF NewReplay, Fields
<1> HIDE DEF e, next
<1>6. PICK S : ledger \in Seq(S)
  BY DEF ReplayInv
<1>7. ledger \in Seq(S \cup {e}) /\ e \in S \cup {e}
  BY <1>6
<1>8. /\ ledger' \in Seq(S \cup {e}) /\ Len(ledger') = Len(ledger) + 1 /\ ledger'[Len(ledger) + 1] = e
      /\ \A n \in 1..Len(ledger) : ledger'[n] = ledger[n]
  BY <1>1, <1>7
<1>9. \A n \in DOMAIN ledger : Truthful(ledger[n])
  BY DEF ReplayInv, LedgerTruthful, Truthful
<1>10. \A n \in DOMAIN ledger' : Truthful(ledger'[n])
  BY <1>4, <1>6, <1>8, <1>9
<1>11. LedgerTruthful'
  BY <1>10 DEF LedgerTruthful, Truthful
<1>12. DOMAIN replay' = Replays /\ \A q \in Replays : DOMAIN replay'[q] = Fields
  BY <1>1, <1>5 DEF ReplayInv
<1>13. \A q \in Replays : replay'[q].pc \in {"decided", "append"} => Judged(replay'[q])
  BY <1>1, <1>5 DEF ReplayInv
<1>14. QED
  BY <1>8, <1>11, <1>12, <1>13 DEF ReplayInv

\* The other steps of a replay judge nothing.
LEMMA ReplayMovesOn ==
    ASSUME ReplayInv, NEW r \in Replays,
           \/ \E live \in BOOLEAN, effects \in EffectReplies : Start(r, live, effects)
           \/ RustFails(r) \/ ReadLast(r)
    PROVE  ReplayInv'
<1>1. PICK f : /\ ledger' = ledger /\ replay' = [replay EXCEPT ![r] = f] /\ DOMAIN f = Fields
               /\ f.pc \in {"decided", "append"} => Judged(f)
  <2>1. ASSUME NEW live, NEW effects, Start(r, live, effects)
        PROVE  \E f : /\ ledger' = ledger /\ replay' = [replay EXCEPT ![r] = f] /\ DOMAIN f = Fields
                      /\ f.pc = "case"
    <3> DEFINE f == [replay[r] EXCEPT !.pc = "case", !.live = live, !.caps = UNION {mergeProviderCapabilities(p) : p \in effects}]
    <3>1. ledger' = ledger /\ replay' = [replay EXCEPT ![r] = f]
      BY <2>1 DEF Start
    <3>2. DOMAIN f = Fields /\ f.pc = "case"
      BY DEF ReplayInv, Fields
    <3>3. QED
      BY <3>1, <3>2
  <2>2. ASSUME RustFails(r)
        PROVE  \E f : ledger' = ledger /\ replay' = [replay EXCEPT ![r] = f] /\ DOMAIN f = Fields /\ f.pc = "ended"
    <3> DEFINE f == [NewReplay EXCEPT !.pc = "ended"]
    <3>1. ledger' = ledger /\ replay' = [replay EXCEPT ![r] = f]
      BY <2>2 DEF RustFails
    <3>2. DOMAIN f = Fields /\ f.pc = "ended"
      BY DEF NewReplay, Fields
    <3>3. QED
      BY <3>1, <3>2
  <2>3. ASSUME ReadLast(r)
        PROVE  \E f : ledger' = ledger /\ replay' = [replay EXCEPT ![r] = f] /\ DOMAIN f = Fields /\ Judged(f)
    <3> DEFINE f == [replay[r] EXCEPT !.pc = "append", !.prev = lastHash]
    <3>1. ledger' = ledger /\ replay' = [replay EXCEPT ![r] = f] /\ replay[r].pc = "decided"
      BY <2>3 DEF ReadLast
    <3>2. DOMAIN f = Fields /\ f.in = replay[r].in /\ f.out = replay[r].out /\ f.advice = replay[r].advice
          /\ f.base = replay[r].base
      BY DEF ReplayInv, Fields
    <3>3. Judged(f)
      BY <3>1, <3>2 DEF ReplayInv, Judged
    <3>4. QED
      BY <3>1, <3>2, <3>3
  <2>4. QED
    BY <2>1, <2>2, <2>3
<1>2. QED
  BY <1>1 DEF ReplayInv, LedgerTruthful

\* What sir says of its providers is true, in the ledger of a replay and in
\* `sir policy explain` (BuildProviderPolicyEvidence, cmdPolicyExplain).
THEOREM AccountsAreTrue == KernelSpec => []EvidenceTruthful
<1>1. KernelInit => ReplayInv
  <2> SUFFICES ASSUME KernelInit PROVE ReplayInv
    OBVIOUS
  <2>1. ledger = <<>> /\ replay = [r \in Replays |-> NewReplay]
    BY DEF KernelInit
  <2>2. NewReplay.pc = "start" /\ DOMAIN NewReplay = Fields
    BY DEF NewReplay, Fields
  <2>3. ledger \in Seq({}) /\ DOMAIN ledger = {}
    BY <2>1
  <2>4. QED
    BY <2>1, <2>2, <2>3 DEF ReplayInv, LedgerTruthful
<1>2. ReplayInv /\ [KernelNext]_kernelVars => ReplayInv'
  <2> SUFFICES ASSUME ReplayInv, [KernelNext]_kernelVars PROVE ReplayInv'
    OBVIOUS
  <2>1. ASSUME UNCHANGED <<replay, ledger>> PROVE ReplayInv'
    BY <2>1 DEF ReplayInv, LedgerTruthful
  <2>2. ASSUME NEW in, Process(in) PROVE UNCHANGED <<replay, ledger>>
    BY <2>2 DEF Process
  <2>3. ASSUME NEW s, WindowPasses(s) PROVE UNCHANGED <<replay, ledger>>
    BY <2>3 DEF WindowPasses
  <2>4. CASE Tools
    BY <2>1, <2>4, ToolsReport
  <2>5. CASE Replaying
    BY <2>5, CaseJudged, EntryTruthful, ReplayMovesOn DEF Replaying
  <2>6. CASE UNCHANGED kernelVars
    BY <2>1, <2>6 DEF kernelVars
  <2>7. QED
    BY <2>1, <2>2, <2>3, <2>4, <2>5, <2>6 DEF KernelNext, Tools, Replaying
<1>3. ReplayInv /\ ReportInv => EvidenceTruthful
  BY DEF ReplayInv, ReportInv, EvidenceTruthful
<1>4. QED
  BY <1>1, <1>2, <1>3, ReportInvariant, PTL DEF KernelSpec

-----------------------------------------------------------------------------
\* What is proved of the registry and of the kernel holds side by side too.
LEMMA SideBySide == PluginsSpec => Spec /\ KernelSpec
<1>1. PluginsInit => Init /\ KernelInit
  BY DEF PluginsInit
<1>2. [PluginsNext]_<<users, vars, kernelVars>> => [Next]_vars /\ [KernelNext]_kernelVars
  BY DEF PluginsNext
<1>3. QED
  BY <1>1, <1>2, PTL DEF PluginsSpec, Spec, KernelSpec
=============================================================================

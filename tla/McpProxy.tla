----------------------------- MODULE McpProxy ------------------------------
(***************************************************************************)
(* `sir mcp-proxy`: which sandbox it puts a server into, and how it runs,  *)
(* interrupts, drains and buries the server's process group.               *)
(***************************************************************************)
EXTENDS Integers, Sequences

CONSTANTS
    Systems,        \* operating systems: "darwin", "linux", "other"
    MaxWrites,      \* bound: pieces the server writes to stderr
    MaxSignals      \* bound: interrupts sir receives

VARIABLES
    px,             \* the proxy: [pc, os, mode, assessed, reader, forwarder, forwarded]
    group,          \* its process group: [child, orphan]
    pipe,           \* stderr: pieces written and not yet read
    told,           \* pieces passed on to sir's own stderr
    written,        \* history: pieces written so far
    sigs            \* [pending, sent]

proxy == <<px, group, pipe, told, written, sigs>>

Modes == {"raw", "isolated", "localhost", "broad", "monitored"}

ProxyInit ==
    /\ px = [pc |-> "off", mode |-> "raw", assessed |-> "raw", reader |-> "off", forwarder |-> "off", forwarded |-> 0]
    /\ group = [child |-> FALSE, orphan |-> FALSE]
    /\ pipe = 0 /\ told = 0 /\ written = 0
    /\ sigs = [pending |-> 0, sent |-> 0]

-----------------------------------------------------------------------------
\* Flags before the wrapped command only: [hosts, noSandbox, tail] where tail
\* says that the child's own arguments hold --no-sandbox too.
stripLeadingNoSandboxFlag(spec) == spec.noSandbox

\* An .app helper loses the sandbox only if its path still has the shape of
\* one when cleaned and when its links are resolved.
IsMacAppHelperCommand(spec) == spec.cleaned = "helper" /\ spec.resolved = "helper"

darwinProxyDegrade(spec) == stripLeadingNoSandboxFlag(spec) \/ IsMacAppHelperCommand(spec)
darwinSandboxProfile(spec) == IF spec.hosts THEN "broad" ELSE "localhost"

\* What the proxy runs the server in.  tool: the temporary profile could be
\* written, or unshare was found.
ModeOf(os, spec, tool) ==
    CASE os = "darwin" -> IF darwinProxyDegrade(spec) \/ ~tool THEN "monitored" ELSE darwinSandboxProfile(spec)
      [] os = "linux" -> IF tool THEN "isolated" ELSE "monitored"
      [] OTHER -> "monitored"

\* What `sir mcp status` says of it.
AssessProxyRuntime(os, spec, tool) ==
    CASE spec.noSandbox -> "monitored"
      [] os = "darwin" -> darwinSandboxProfile(spec)
      [] os = "linux" -> IF tool THEN "isolated" ELSE "monitored"
      [] OTHER -> "monitored"

Specs == [hosts : BOOLEAN, noSandbox : BOOLEAN, cleaned : {"helper", "other"}, resolved : {"helper", "other"}]

\* runProxyChild up to Start.  Without a pipe the child writes to sir's own
\* stderr and nothing is scanned.
Launch ==
    /\ px.pc = "off"
    /\ \E os \in Systems, spec \in Specs, tool \in BOOLEAN, piped \in BOOLEAN, started \in BOOLEAN :
          /\ px' = [pc |-> IF started THEN "running" ELSE "exited", mode |-> ModeOf(os, spec, tool),
                    assessed |-> AssessProxyRuntime(os, spec, tool),
                    reader |-> IF piped /\ started THEN "reading" ELSE "off",
                    forwarder |-> IF started THEN "waiting" ELSE "off", forwarded |-> 0]
          /\ group' = [child |-> started, orphan |-> FALSE]
    /\ UNCHANGED <<pipe, told, written, sigs>>

-----------------------------------------------------------------------------
\* The server: it writes, leaves a process of its own behind, and ends.
Write ==
    /\ group.child \/ group.orphan
    /\ px.reader # "off" /\ px.pc # "exited" /\ written < MaxWrites
    /\ written' = written + 1 /\ pipe' = pipe + 1
    /\ UNCHANGED <<px, group, told, sigs>>
Fork ==
    /\ group.child /\ ~group.orphan
    /\ group' = [group EXCEPT !.orphan = TRUE]
    /\ UNCHANGED <<px, pipe, told, written, sigs>>
ChildEnds ==
    /\ group.child
    /\ group' = [group EXCEPT !.child = FALSE]
    /\ UNCHANGED <<px, pipe, told, written, sigs>>
OrphanEnds ==
    /\ group.orphan
    /\ group' = [group EXCEPT !.orphan = FALSE]
    /\ UNCHANGED <<px, pipe, told, written, sigs>>

\* scanStderrForCredentials: a read brings what is there, up to the buffer.
Scan ==
    /\ px.reader = "reading" /\ px.pc # "exited" /\ pipe > 0
    /\ \E n \in 1..pipe : pipe' = pipe - n /\ told' = told + n
    /\ UNCHANGED <<px, group, written, sigs>>
\* End of file: nobody holds the writing end any more.
Eof ==
    /\ px.reader = "reading" /\ px.pc # "exited" /\ pipe = 0 /\ ~group.child /\ ~group.orphan
    /\ px' = [px EXCEPT !.reader = "done"]
    /\ UNCHANGED <<group, pipe, told, written, sigs>>

\* A signal: to the channel while it is registered; afterwards the default
\* action ends the process.
Interrupt ==
    /\ px.pc \notin {"off", "exited"} /\ sigs.sent < MaxSignals
    /\ IF px.pc = "running" THEN px' = px /\ sigs' = [pending |-> sigs.pending + 1, sent |-> sigs.sent + 1]
       ELSE px' = [px EXCEPT !.pc = "exited", !.forwarder = "killed"] /\ sigs' = [sigs EXCEPT !.sent = @ + 1]
    /\ UNCHANGED <<group, pipe, told, written>>

\* syscall.Kill: an id names the leader of the group, a negated one all of it.
Reached(sign) == IF sign > 0 THEN {"child"} ELSE {"child", "orphan"}

\* It negates the id it is given; the forwarder hands it a negated one.
killProcessGroup(sign) == Reached(-sign)

\* The group without some of the processes a signal reaches: any of them may
\* ignore it.
Signalled(who) ==
    {g \in [child : BOOLEAN, orphan : BOOLEAN] :
        /\ (g.child => group.child) /\ (g.orphan => group.orphan)
        /\ group.child => g.child \/ "child" \in who
        /\ group.orphan => g.orphan \/ "orphan" \in who}
\* SIGKILL is not ignored.
Killed(who) == [child |-> group.child /\ "child" \notin who, orphan |-> group.orphan /\ "orphan" \notin who]

\* Mutant: every signal is passed on, and the server may ignore them all.
ForwardOnly ==
    /\ px.forwarder = "waiting" /\ px.pc # "exited" /\ sigs.pending > 0
    /\ sigs' = [sigs EXCEPT !.pending = @ - 1]
    /\ group' \in Signalled(killProcessGroup(-1))
    /\ UNCHANGED <<px, pipe, told, written>>

\* escalatingSignalForwarder: the first is passed on, a second kills and
\* exits, without the clean-up of Leave.
Forward ==
    /\ px.forwarder = "waiting" /\ px.pc # "exited" /\ sigs.pending > 0
    /\ sigs' = [sigs EXCEPT !.pending = @ - 1]
    /\ IF px.forwarded = 0
       THEN /\ px' = [px EXCEPT !.forwarded = 1]
            /\ group' \in Signalled(killProcessGroup(-1))
       ELSE /\ px' = [px EXCEPT !.pc = "exited", !.forwarder = "escalated"]
            /\ group' = Killed(killProcessGroup(-1))
    /\ UNCHANGED <<pipe, told, written>>

\* cmd.Wait returned: signals are no longer caught, and the forwarder, which
\* may still take a signal that was already in the channel, is told.
Wait ==
    /\ px.pc = "running" /\ ~group.child
    /\ px' = [px EXCEPT !.pc = "stopping"]
    /\ UNCHANGED <<group, pipe, told, written, sigs>>
ForwarderDone ==
    /\ px.pc = "stopping" /\ px.forwarder = "waiting"
    /\ px' = [px EXCEPT !.pc = "draining", !.forwarder = "done"]
    /\ UNCHANGED <<group, pipe, told, written, sigs>>

\* Mutant: the proxy leaves as soon as its child has.
LeaveEarly ==
    /\ px.pc = "draining"
    /\ px' = [px EXCEPT !.pc = "exited"]
    /\ group' \in Signalled(Reached(-1))
    /\ UNCHANGED <<pipe, told, written, sigs>>

\* The reader has finished; what is left of the group gets a SIGTERM
\* (cleanupMCPProxyGroup).
Leave ==
    /\ px.pc = "draining" /\ px.reader \in {"off", "done"}
    /\ px' = [px EXCEPT !.pc = "exited"]
    /\ group' \in Signalled(Reached(-1))
    /\ UNCHANGED <<pipe, told, written, sigs>>

ProxyNext ==
    \/ Launch \/ Write \/ Fork \/ ChildEnds \/ OrphanEnds \/ Scan \/ Eof
    \/ Interrupt \/ Forward \/ Wait \/ ForwarderDone \/ Leave

-----------------------------------------------------------------------------
(***************************************************************************)
(* Properties.                                                             *)
(***************************************************************************)
\* A proxy that was not interrupted to death has passed on and scanned
\* everything its server, and whoever the server left behind, wrote to
\* stderr: runProxyChild drains the pipe after Wait and before it returns.
StderrScanned == px.pc = "exited" /\ px.forwarder = "done" => told = written

\* Two interrupts end the server, whether or not it listens to them
\* (escalatingSignalForwarder: "prevents a misbehaving or signal-ignoring
\* child from wedging sir indefinitely").
SecondInterruptEnds == sigs.sent >= 2 ~> (px.pc = "exited" \/ ~group.child)

\* "killFn(-pgid, SIGKILL) to ensure the group dies even if the server traps
\* TERM/INT" (escalatingSignalForwarder; the test of it wants -pgid, "process
\* group").  The id is negated twice on its way to the system call: a process
\* the server started lives on.
EscalationKillsGroup == px.forwarder = "escalated" => ~group.child /\ ~group.orphan

\* What status reports as hardened is hardened ("inventory/AssessProxyRuntime
\* classify the same invocation the runtime would actually run").  An .app
\* helper, or a profile that cannot be written, runs monitored.
AssessmentHonest == px.mode = "monitored" => px.assessed \in {"monitored", "raw"}

\* Once the server has ended the proxy ends.  A process the server left
\* behind keeps it, as the group is cleaned up only after the drain.
ServerEndEnds == (px.pc = "running" /\ ~group.child) ~> px.pc = "exited"
=============================================================================

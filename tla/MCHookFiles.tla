----------------------------- MODULE MCHookFiles -----------------------------
(***************************************************************************)
(* TLC instance of HookFiles.                                              *)
(***************************************************************************)
EXTENDS HookFiles, TLC

CONSTANTS p1, p2, claude, gemini, config

MCSir == {"v1", "v2"}
Mine == <<"user">>
Hooked == Settings(<< <<"v1">>, Mine >>, TRUE)
Mixed == Settings(<< <<"user", "v1">> >>, TRUE)
Cut == Settings(<<Mine>>, TRUE)
Added == Settings(<< <<"v1">>, <<"agent">> >>, TRUE)
Plain == Settings(<< <<"text">> >>, FALSE)

Bounds(e, c, d) == [edits |-> e, commands |-> c, deaths |-> d]
Base == [projects |-> {p1, p2}, running |-> {p1, p2}, leased |-> {p1, p2}, hookfiles |-> {claude}, plain |-> {}, critical |-> {claude},
         files |-> (claude :> Hooked), installed |-> {claude}, enabled |-> {claude}, explicit |-> {{}},
         managed |-> FALSE, policy |-> <<>>, others |-> FALSE, faulty |-> FALSE,
         kinds |-> {"bash", "config"}, edits |-> {Added}, max |-> Bounds(0, 1, 0)]

\* Two projects check the same file: while sir is upgraded and removed, the
\* second with a session a hook creates and no lease ...
Upgrade == [Base EXCEPT !.running = {p1}, !.leased = {p1}]
\* ... and while an agent edits it and writes fail.
Shared == [Base EXCEPT !.faulty = TRUE, !.edits = {Cut}, !.max = Bounds(2, 0, 1)]
\* One project: every kind of check, and a file sir has no copy of.
OneProject == [Base EXCEPT !.faulty = TRUE, !.projects = {p1}, !.running = {p1}, !.leased = {p1}, !.hookfiles = {claude, gemini}, !.plain = {config},
                       !.files = (claude :> Mixed) @@ (gemini :> Absent) @@ (config :> Plain),
                       !.explicit = {{}, {claude}, {gemini}},
                       !.kinds = {"bash", "config", "sweep"}, !.edits = {Added, Garbled, Absent}, !.max = Bounds(2, 0, 0)]
\* The same, with an install or uninstall that races one edit.
Racing == [OneProject EXCEPT !.faulty = FALSE, !.max = Bounds(1, 1, 1)]
\* A managed machine whose policy covers one of two hook files ...
Managed == [OneProject EXCEPT !.managed = TRUE, !.plain = {}, !.policy = (claude :> << <<"v1">> >>),
                       !.files = (claude :> Settings(<< <<"v1">> >>, TRUE)) @@ (gemini :> Absent), !.edits = {Added, Absent},
                       !.max = Bounds(1, 1, 0)]
\* ... and one whose policy covers both.
Covered == [Managed EXCEPT !.policy = (claude :> << <<"v1">> >>) @@ (gemini :> << <<"v1">> >>),
                       !.files = (claude :> Settings(<< <<"v1">> >>, TRUE)) @@ (gemini :> Settings(<< <<"v1">> >>, FALSE)),
                       !.max = Bounds(2, 0, 0)]
MCWorlds == {Upgrade, Shared, OneProject, Racing, Managed, Covered}

\* A session locked down for another cause.
LockedElsewhere == {[Base EXCEPT !.others = TRUE, !.kinds = {"config"}, !.max = Bounds(1, 1, 0)]}
=============================================================================

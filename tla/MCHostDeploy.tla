----------------------------- MODULE MCHostDeploy -----------------------------
(* Small instances of HostDeploy for TLC.                                       *)
EXTENDS HostDeploy

\* One commit of each kind: host code, a migration, a dependency, the UI.
EachKind == {{"core"}, {"core", "schema"}, {"deps"}, {"api", "ui"}}
===============================================================================

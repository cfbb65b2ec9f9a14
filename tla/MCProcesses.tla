----------------------------- MODULE MCProcesses -----------------------------
(* A small instance of Processes for TLC: see MCProcesses.cfg.             *)
EXTENDS Processes, TLC

CONSTANTS s1, s2, o1, d1, api, aws

TwoServers == {s1, s2}
OneOneShot == {o1}
OneEditor  == {d1}
OneClient  == {api}
OneOwner   == {aws}
FourEngines == 1 .. 4
EnginesOfEach == s1 :> {1, 2} @@ s2 :> {3} @@ o1 :> {4}

(* A row that asks for versioning only, and one that asks for everything;  *)
(* S3 takes a second creation of the bucket for an error, or does not.     *)

Everything == [versioned |-> TRUE, locked |-> TRUE, retained |-> TRUE]

TwoCases == {<<[Nothing EXCEPT !.versioned = TRUE], FALSE>>, <<Everything, TRUE>>}

(* Others lock the bucket without a retention rule, or configure nothing.  *)

TwoForeign == {Nothing, [Everything EXCEPT !.retained = FALSE]}

(* A server with two pairs and a one-shot sync; the server while others    *)
(* create its target; or one engine while the bucket's row is edited.      *)

SyncsOrEdits == {{s1, o1}, {s1, aws}, {o1, d1}, {s2, d1, api}}
=============================================================================

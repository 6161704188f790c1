----------------------------- MODULE MCVMLaunch -----------------------------
(* Model-checking instance of VMLaunch.                                    *)
EXTENDS VMLaunch

\* What the three pieces of code can be asked for.  As to the ISO, cli does what
\* api does: one base ISO is enough for it.
MostConfigs == {cfg \in [id : VMIDs, kind : Kinds, base : Bases] :
                  cfg.kind = "cli" => cfg.base = "iso"}
=============================================================================

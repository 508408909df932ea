---- MODULE MCEffectPump ----
(* Instances of EffectPump for TLC. *)
EXTENDS EffectPump

MCDrainer == {"reader", "task"}
MCFlusher == 1..2
====

---------------------------- MODULE MCScriptEventLoop ----------------------------
(* One delay; the clamp level 0 makes the first nested timer a deep one.  *)
EXTENDS ScriptEventLoop

Zero == {0}
NoIds == {}
AnyIds == 1..MaxTimers
=============================================================================

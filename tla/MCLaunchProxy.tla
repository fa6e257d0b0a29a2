---------------------------- MODULE MCLaunchProxy ----------------------------
(* Three requests through two proxies: one turn that kills the daemon,     *)
(* sent twice, and a streamed one beside it.                               *)
EXTENDS LaunchProxy, TLC

CONSTANTS r1, r2, r3, a, b, plain, streamed

TheProxyOf == r1 :> a @@ r2 :> a @@ r3 :> b
ThePrompt == r1 :> plain @@ r2 :> plain @@ r3 :> streamed
=============================================================================

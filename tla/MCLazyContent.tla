---------------------------- MODULE MCLazyContent ----------------------------
(***************************************************************************)
(* Model checking of LazyContent: three threads, two calls each.           *)
(***************************************************************************)
EXTENDS LazyContent

AllKinds == {"leaf", "broken", "message", "container", "headers", "eager"}
=============================================================================

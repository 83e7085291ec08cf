---------------------------- MODULE MCContextMemory ----------------------------
(* Two sessions and an application in one context with a memory limit: h on *)
(* the heap, w in a static workspace with the sizes of the 64-bit build.    *)
EXTENDS ContextMemory

CONSTANTS h, w, app

MCSnapshots == {<<3000>>, <<3000, 20000>>}
================================================================================

---------------------------------- MODULE Page ----------------------------------
(***************************************************************************)
(* What the open state of the browser build, the district on the screen,   *)
(* and the national feed beside it have in common (data.js, S).            *)
(***************************************************************************)
CONSTANTS
  States,  \* stateIds()
  Home     \* the one the page opens with

VARIABLE focus  \* S.focus
================================================================================

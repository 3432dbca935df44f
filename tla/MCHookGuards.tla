---------------------------- MODULE MCHookGuards ----------------------------
(* Instance of HookGuards for TLC: all four guards, two threads, two exam
   windows, two positions of the primary monitor and points in and outside it *)
EXTENDS HookGuards

McKinds == {"keyboard", "mouse", "focus", "clipboard"}
McMonitors == {[x |-> 0, y |-> 0, width |-> 2, height |-> 1],
               [x |-> 1, y |-> 0, width |-> 2, height |-> 1]}
McPoints == {[x |-> 0, y |-> 0], [x |-> 3, y |-> 1]}
McStrokes == {[key |-> "Tab", held |-> {}],
              [key |-> "Tab", held |-> {"alt", "shift"}],
              [key |-> "F12", held |-> {"ctrl", "shift"}]}
=============================================================================

--------------------------------- MODULE MCPvm ---------------------------------
(* A small kernel and all commands as a TLC instance of Pvm. *)
EXTENDS Pvm

Area(from, to) == [start |-> from, end |-> to]

\* Adjacent areas, and areas apart with one that lies beyond pagemap.
MCLayouts == {<<Area(0, 1), Area(1, 3)>>, <<Area(0, 1), Area(8, 9), Area(21, 22)>>}

MCFrames == 0 .. 2

Cmd(o, list) == [option |-> o, args |-> list]

\* 1 is the PID.
MCCommands ==
  {Cmd(o, <<1>>) : o \in {"-memused", "-mapall", "-mapallin", "-alltablesize", "-unknown",
                           "-maprange"}}
    \cup {Cmd("-frameinfo", <<f>>) : f \in 0 .. 2}
    \cup {Cmd("-freefc", <<a, b>>) : a \in 0 .. 1, b \in 0 .. 4}
    \cup {Cmd(o, <<1, v>>) : o \in {"-mapva", "-pte"}, v \in {0, 1, 8}}
    \cup {Cmd("-maprange", <<1, v, 17>>) : v \in {0, 1}}
===============================================================================

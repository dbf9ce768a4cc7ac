----------------------------- MODULE MCDJControllers -----------------------------
(* Up to three devices of both kinds, of which one is unplugged, or fewer with inputs. *)
EXTENDS DJControllers

Of(name, value) == [name |-> name, value |-> value]

MCInputs == {Of("play", 0), Of("enter", 0), Of("pitch", 1), Of("volume", 127), Of("browse", -1), Of("jog", 1)}

Bound(p, u, l, e) == [plugs |-> p, unplugs |-> u, late |-> l, events |-> e]

MCBounds == {Bound(3, 1, 1, 0), Bound(2, 1, 1, 1), Bound(3, 0, 0, 1), Bound(2, 0, 0, 2)}
==================================================================================

------------------------------ MODULE MCSignals ------------------------------
(***************************************************************************)
(* Signals for TLC.  A setting says how the block is set up and what       *)
(* happens to it: the stop held in every way, the tests of the contacts,   *)
(* or the valve going to and fro in cycles.                                *)
(***************************************************************************)
EXTENDS Signals

Quiet == [has |-> {}, OutputMask |-> {}, keys |-> {NoInputs}, marks |-> {{}},
          orders |-> {{}}, does |-> {}, zones |-> {{"closed"}}, windows |-> {1, 5}, 
          trips |-> -1]
Keys(tu, buttons, pdu) == [tu |-> tu, buttons |-> buttons, pdu |-> pdu]

Stops == [Quiet EXCEPT
  !.has = {"kvoOff", "remote"}, !.does = {"dips", "moves"},
  !.keys = {NoInputs, Keys({"stop"}, {}, {}), Keys({}, KEY_STOP, {})}]

Inverted == [Quiet EXCEPT
  !.has = {"kvoOff", "inputType"},
  !.OutputMask = {"closed", "muftaOpen", "muftaClose"},
  !.keys = {NoInputs, Keys({}, KEY_STOP, {}), Keys({}, {}, KEY_STOP)},
  !.marks = {{"muff", "lastOpen", "fault"}, {"muff", "lastClose", "local", "defect"}}]

Tests == [Quiet EXCEPT
  !.has = {"serial"}, !.does = {"modbus", "menu"},
  !.orders = {{"enOut"}, {"disOut"}, {"enIn"}, {"disIn"}, {"stop", "open"}}]

Counts == [Quiet EXCEPT !.windows = {1}, !.zones = {{}, {"opened"}},
  !.does = {"moves", "counts"}, !.trips = 2]

Cycles == [Quiet EXCEPT !.windows = {1}, !.does = {"moves", "orders"}, !.trips = 1]

MCSettings == {Stops, Inverted, Tests, Counts, Cycles}
MCOutputReg == {"opened", "input"}

=============================================================================

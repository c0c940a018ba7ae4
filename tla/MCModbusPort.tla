----------------------------- MODULE MCModbusPort -----------------------------
(* Instances of ModbusPort for TLC. *)
EXTENDS ModbusPort
MCAll == Kinds
MCTwo == {"read", "write"}
MCOneSlave == {1}
MCSlaves == {0, 1}
===============================================================================

-------------------------- MODULE MCDeviceExchange --------------------------
(* Small instances of DeviceExchange: requests taken from the command table *)
(* of protocol.py, two reports standing for a multi-frame reply.            *)
EXTENDS DeviceExchange

\* read_channel_state(0) and read_input_state(0): cmd 0x7700, two categories.
ReadChannel == [dir |-> "read", cmd |-> "7700", cat |-> "output", packets |-> 2]
ReadInput   == [dir |-> "read", cmd |-> "7700", cat |-> "input", packets |-> 2]
\* get_info() and set_full_channel_state(4): cmd 0x04, read and write.
GetInfo     == [dir |-> "read", cmd |-> "04", cat |-> "system", packets |-> 1]
WriteFull4  == [dir |-> "write", cmd |-> "04", cat |-> "output", packets |-> 1]
\* set_channel(0).
WriteCh0    == [dir |-> "write", cmd |-> "1f00", cat |-> "output", packets |-> 1]

MCRequests == {ReadChannel, ReadInput, GetInfo, WriteFull4}
PlainRequests == {ReadChannel, WriteCh0}
=============================================================================

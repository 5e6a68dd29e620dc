------------------------------ MODULE MCChunkStream -----------------------------
(* An instance of ChunkStream for TLC: payloads that look like a line end  *)
(* or like a header, a last frame or none, trailing bytes, a size that is  *)
(* not a number.                                                           *)
EXTENDS ChunkStream, TLC

MCSymbols == {"0", "1", "2", "x", "bad", ";", "cr", "lf"}
MCSizeOf == ("0" :> 0) @@ ("1" :> 1) @@ ("2" :> 2)

One == [size |-> "1", payload |-> <<"2">>]
Two == [size |-> "2", payload |-> <<"x", "1">>]
LineEnd == [size |-> "2", payload |-> <<"cr", "lf">>]
Terminal == [size |-> "0", payload |-> <<>>]
Bad == [size |-> "bad", payload |-> <<"x">>]

MCUploads == {<<Terminal>>, <<One, Two, Terminal>>, <<LineEnd, One, Terminal>>,
              <<Two, LineEnd>>, <<One, Bad, Two, Terminal>>,
              <<Two, Terminal, Bad>>}
================================================================================

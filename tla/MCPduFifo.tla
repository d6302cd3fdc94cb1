----------------------------- MODULE MCPduFifo -----------------------------
(* Small instances of PduFifo: MCPduFifoRx.cfg (one producer), MCPduFifoTx.cfg *)
(* and MCPduFifoStranded.cfg (two producers).                                *)
EXTENDS PduFifo, TLC

\* Messages are only copied: which is which does not matter to a safety run.
MsgSymmetry == Permutations(Msgs)
=============================================================================

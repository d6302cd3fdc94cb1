---------------------------- MODULE MCPingPong ----------------------------
(* The camera buffers with the code's NUM_CAM_BUFFERS: MCPingPong.cfg.      *)
EXTENDS PingPong, TLC
============================================================================

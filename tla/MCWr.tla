-------------------------------- MODULE MCWr --------------------------------
(* The White Rabbit time stamp devices, for model checking.                *)
EXTENDS WrDriver

\* Sources of both interrupt handlers: wr_ts_isr() and wr_pps_isr().
AllHandlers == {"tt0", "pkt_rx", "pps"}
=============================================================================

---------------------------- MODULE MCConnection ----------------------------
(* Connection with the configurations the connectors use. *)
EXTENDS Connection

Config(auth, sub, beat, life) ==
  {[tls |-> t, manualAuth |-> auth, manualSubscribe |-> sub, heartbeat |-> beat, lifetime |-> life] :
     t \in BOOLEAN}

\* Binance market data; Binance orders and user stream; Bybit, OKX, Gate and Deribit; Coinbase,
\* Gemini and Alpaca, with client pings.
ConnectorConfigs ==
  Config(FALSE, FALSE, FALSE, TRUE) \cup Config(FALSE, TRUE, FALSE, TRUE)
  \cup Config(TRUE, TRUE, FALSE, FALSE) \cup Config(FALSE, TRUE, TRUE, FALSE)
=============================================================================

----------------------------- MODULE WebServerMC -----------------------------
(* WebServer for TLC: requests that are answered, that are refused, with a   *)
(* body, with a second request behind; and frames of every kind.             *)
EXTENDS WebServer

MCConn == {1}

Shake == <<"GET", "Upgrade", "Key", "blank">>

MCStreams ==
    { <<"GET", "Keep-Alive", "blank", "GET", "blank">>,
      <<"GET", "close", "Keep-Alive", "Length", "blank", "body", "Other">>,
      <<"POST", "blank", "GET", "blank">>,
      <<"GET", "Upgrade", "Key", "Length", "blank", "body", "text">>,
      Shake \o <<"text", "ping", "text", "close frame", "text">>,
      Shake \o <<"more", "binary", "unmasked", "text">>,
      Shake \o <<"text", "long", "text">> }
=============================================================================

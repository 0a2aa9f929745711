-------------------------- MODULE MCNotifications --------------------------
(***************************************************************************)
(* A small instance of Notifications for TLC.                              *)
(***************************************************************************)
EXTENDS Notifications

\* Everything configured, with each of Meta's two templates or without; no
\* mail key, and a provider that was picked without its credentials.
MCDeploy ==
    [mail : {TRUE}, twilio : {TRUE}, meta : {TRUE}, telegram : {TRUE},
     text : BOOLEAN, document : BOOLEAN]
    \cup {[mail |-> FALSE, twilio |-> FALSE, meta |-> TRUE, telegram |-> TRUE,
           text |-> TRUE, document |-> FALSE]}

\* Everything on with either provider, all switched off, and no address.
MCSetting ==
    [on : {Alert, {}}, email : {TRUE}, number : {TRUE}, chat : {TRUE},
     provider : {"Twilio", "Meta"}]
    \cup {[on |-> Alert, email |-> FALSE, number |-> FALSE, chat |-> FALSE,
           provider |-> "Twilio"]}
=============================================================================

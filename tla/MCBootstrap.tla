------------------------------ MODULE MCBootstrap ------------------------------
(* One task that installs the whole catalogue; two tasks and a user on a part. *)
EXTENDS Bootstrap, TLC

CONSTANTS t1, t2, u

Tasks == {t1, t2}
Users == {u}

Whole == [tasks |-> {t1}, users |-> {}, setup |-> Catalogue]

Rolling == [tasks |-> Tasks, users |-> Users, setup |-> <<Xero, MailChimp>>]

Instances == {Whole, Rolling}

\* A new app, and the name of one of the set-up with blanks around it.
NewApps == {App("Custom", "BASIC", Default), App(" Xero ", "OAUTH", Default)}

\* A client whose name a client of the set-up begins with.
NewClients == {Client("Adyen", "Lambdas", "BASIC")}

Trims == " Xero " :> "Xero"

Prefixes == {<<"Lambdas", "LambdasMailChimp">>}
=============================================================================

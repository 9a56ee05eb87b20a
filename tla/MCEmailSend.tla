---- MODULE MCEmailSend ----
EXTENDS EmailSend
====

----------------------------- MODULE MCSrsLink ------------------------------
(* Passwords for the runs of SrsLink: the one for red is out of date.      *)
EXTENDS SrsLink

CONSTANTS redPassword, bluePassword, newPassword

MCConfigured == <<redPassword, bluePassword>>
MCExpected   == <<newPassword, bluePassword>>

=============================================================================

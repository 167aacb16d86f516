---- MODULE MCDhcp ----
EXTENDS Dhcp
====

------------------------ MODULE MCTemplateLifecycle ------------------------
(* TemplateLifecycle on small instances.                                   *)
EXTENDS TemplateLifecycle, TLC

\* Everything but VMs whose information cannot be read.
SeeingKinds == {"templateWrite", "connect", "list", "secretWrite", "statusWrite", "crash",
                "scale", "editTemplate", "deleteTemplate", "editSecret", "deleteSecret",
                "loseVM"}
=============================================================================

-------------------------------- MODULE Host --------------------------------
(* The shells of one host, in which deploy.sh and AutoDeploy.py are run.    *)
CONSTANT Process
================================================================================

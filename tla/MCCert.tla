-------------------------------- MODULE MCCert --------------------------------
(* Two nodes share a pair that lasts two days and is renewed on the last of  *)
(* them, for three days; the process may be stopped once, and ends by itself *)
(* as often as it cannot start; a monitor reloads once, which lets a node    *)
(* request while the other starts or renews; and four certificates are       *)
(* issued, enough for both tasks to renew on the same day.                   *)
EXTENDS Cert
=============================================================================

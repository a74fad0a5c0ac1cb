------------------------------- MODULE Streams -------------------------------
(* The stream URLs of the server, and the value that stands for a NULL     *)
(* pointer, a missing map entry or an empty context id.                    *)
CONSTANTS
    Url,        \* stream URLs: vhost/app/stream
    None

ASSUME UrlAssumption == None \notin Url
=============================================================================

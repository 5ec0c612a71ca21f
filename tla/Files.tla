-------------------------------- MODULE Files --------------------------------
(***************************************************************************)
(* What a reader can find in a file that others rewrite in place:          *)
(* writeFileSync truncates the file before it writes, so a reader, or the  *)
(* death of the writer, can meet a file that does not parse.               *)
(***************************************************************************)
CONSTANTS
    None,       \* no such file
    Torn        \* a file that cannot be parsed: it is being written, or was cut short

ASSUME FilesAssumption == None # Torn

Parsed(content) == content \notin {None, Torn}
==============================================================================

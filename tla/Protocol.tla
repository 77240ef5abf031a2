------------------------------ MODULE Protocol ------------------------------
(***************************************************************************)
(* Protocol.hpp as a whole: the bodies that module Framing finds in the    *)
(* stream carry the requests of module Messages.  What a body means does   *)
(* not depend on how the stream was cut, because FramesExact holds, so     *)
(* every request is tried as soon as a body has been submitted.            *)
(***************************************************************************)
EXTENDS Framing, Messages

Submitted == submitted # <<>>

\* Although the server looks for a key as text, anywhere, and does not parse the
\* object around it, it understands what was typed, whatever names, brackets,
\* quotes and keys the values contain, and MySQL is asked for the name that was
\* understood and for no other.  Only the request id must not be the key data,
\* which is taken for the key itself (parseClientMessage lines 132-174,
\* extractStringValue lines 183-214, extractObjectValue lines 216-256, sqlEscape
\* in ChatService.hpp lines 46-56).
RequestUnderstood == Submitted => EachUnderstood

\* The text of a chat, and the username and the request id of an answer, are
\* shown to the client as the server has understood them: as they were typed,
\* but for characters outside ASCII, which are shown as their escape
\* (escapeJson lines 64-78, unescapeJson lines 80-99, buildResponse lines
\* 101-130).
TextArrives == Submitted => EachArrives
=============================================================================

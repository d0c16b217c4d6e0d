---------------------------- MODULE MCOtauFiles ----------------------------
(* Instance of OtauFiles for TLC: a folder of three files.                  *)
EXTENDS OtauFiles

File(code, version, subs) ==
    ToArray([EmptyOtauFile EXCEPT !.manufacturerCode = code, !.fileVersion = version,
                                  !.subElements = subs])
Part(tag, data) == [tag |-> tag, length |-> Len(data), data |-> data]

Image2 == File(DeviceCode, 2, <<Part(0, <<7>>)>>)
Wrapped3 == <<5>> \o File(DeviceCode, 3, <<Part(0, <<8>>), Part(1, <<9>>)>>) \o <<4>>
Truncated3 == SubSeq(File(DeviceCode, 3, <<Part(0, <<8, 8, 8>>)>>), 1, 9)
HeaderOnly == File(DeviceCode, 4, << >>)
ShortHeader == <<MAGIC, 3, 0, DeviceCode, 4, 6, 0, 1, 1>>
TinyTotal == <<MAGIC, 6, 0, DeviceCode, 3, 2, 0, 1, 7>>
Legrand3 == File(LEGRAND, 3, <<Part(0, <<6>>)>>) \o <<1, 1, 1>>

(* Two OTA files and a firmware binary, which is saved as the second one. *)
MCPathOrder == <<"a", "b", "c">>
MCKind == [a |-> "ota", b |-> "ota", c |-> "bin"]
MCSavePath == [a |-> "a", b |-> "b", c |-> "b"]
MCContents ==
    [a |-> {Image2, Wrapped3, Truncated3, HeaderOnly, ShortHeader, TinyTotal, Legrand3, << >>},
     b |-> {Wrapped3},
     c |-> {<<7, 7>>, Image2}]

(* The first file, an older image, has a name that is not read, such as     *)
(* that of a backup; the second holds a newer image.                        *)
OtherKind == [MCKind EXCEPT !.a = "other"]
BackupContents == [a |-> {Image2}, b |-> {Wrapped3}, c |-> {<<7, 7>>}]

(* The editor and the session meet only in the folder, and the editor has   *)
(* no use for the index: TLC follows one of them at a time, the editor with *)
(* the index of an empty folder.  MCContents has images like those it saves. *)
OneAtATime ==
    \/ session = NoSession /\ index = << >>
    \/ editPath = NoPath /\ editOf = EmptyOtauFile
=============================================================================

------------------------------- MODULE MCRpc -------------------------------
(***************************************************************************)
(* The interfaces of the repository: blk, vfs, logger, kernel and the ones *)
(* of tools/rpctest.  Bytes are hexadecimal digits, an int has two.        *)
(***************************************************************************)
EXTENDS Rpc

Fn(ret, name, params) == ret \o <<name, "(">> \o params \o <<")", ";">>

blockdrv ==
    Fn(<<"int">>, "blkimpl_read", <<"out", "blob", "buffer", ",", "int", "offset">>)
    \o Fn(<<"long">>, "blkimpl_total_size", << >>)
    \o Fn(<<"int">>, "blkimpl_sector_count", << >>)
    \o Fn(<<"int">>, "blkimpl_read_sector", <<"out", "blob", "buffer", ",", "int", "sector">>)
vfs ==
    Fn(<<"int">>, "vfs_write", <<"int", "fd", ",", "int", "size", ",", "blob", "buffer">>)
    \o Fn(<<"int">>, "vfs_read", <<"out", "blob", "buffer", ",", "int", "fd", ",", "int", "size">>)
    \o Fn(<<"int">>, "vfs_close", <<"int", "fd">>)
    \o Fn(<<"int">>, "vfs_open", <<"string", "filename", ",", "int", "open_mode", ",", "int", "create_perms">>)
logger == Fn(<<"oneway", "void">>, "logger_trace", <<"string", "msg">>)
kernel ==
    Fn(<<"int">>, "kernel_get_task_info", <<"int", "pid", ",", "out", "blob", "buffer">>)
    \o Fn(<<"oneway", "void">>, "kernel_reboot", << >>)
rpctest ==
    Fn(<<"int">>, "ret_int", << >>) \o Fn(<<"long">>, "ret_long", << >>)
    \o Fn(<<"void">>, "in_int", <<"int", "val">>) \o Fn(<<"void">>, "in_long", <<"long", "val">>)
    \o Fn(<<"void">>, "in_string", <<"string", "val">>) \o Fn(<<"void">>, "in_blob", <<"blob", "val">>)
    \o Fn(<<"void">>, "out_int", <<"out", "int", "result">>)
    \o Fn(<<"void">>, "out_long", <<"out", "long", "result">>)
    \o Fn(<<"void">>, "out_string", <<"out", "string", "result">>)
    \o Fn(<<"void">>, "out_blob", <<"out", "blob", "result">>)
    \o Fn(<<"oneway", "void">>, "ow", <<"string", "str">>)

MCFiles == {blockdrv, vfs, logger, kernel, rpctest}
MCDeclarations ==
    {Fn(<<"int">>, "mixed", <<"string", "aa", ",", "out", "long", "bb">>),
     Fn(<<"void">>, "outs", <<"out", "string", "aa", ",", "out", "blob", "bb">>)}
MCMistakes == {"oneway", "out", "void", "long", "blob", "(", ")", ",", ";", "name", "x", "9th"}
MCDevice == <<1, 2, 3, 4, 5, 6>>
MCStrings == {<< >>, <<1>>, <<2, 1>>}
MCBlobs == {<< >>, <<0>>, <<9, 0, 1>>}
=============================================================================

----------------------------- MODULE QmlOptions -----------------------------
(***************************************************************************)
(* The elements of QtGrpcQuick that configure a channel and a call:        *)
(* GrpcMetadata, GrpcChannelOptions, GrpcCallOptions, GrpcHttp2Channel.    *)
(* Each options element holds an option object of ChannelConfig; a change  *)
(* runs along the signals dataChanged, metadataChanged and the like up to  *)
(* the channel, which takes the options again.  An application configures  *)
(* its channel with these elements or with the C++ classes.                *)
(***************************************************************************)
EXTENDS ChannelConfig

CONSTANTS Metadatas,    \* the GrpcMetadata elements
          Datas,        \* the maps assigned to them, in the order of the keys:
                        \* key and the comma-separated values
          QmlFields,    \* property |-> the values assigned to it
          MaxQmlEdits   \* bound: assignments to properties

ASSUME QmlAssumption ==
    /\ Metadatas \subseteq STRING
    /\ DOMAIN QmlFields = {"deadline", "format", "ssl"} /\ QmlFields.ssl \subseteq BOOLEAN

VARIABLES qml,          \* is the channel configured with elements?
          data,         \* GrpcMetadata.data
          metadata,     \* the metadata element of each options element
          configuration, \* of each options element: its SSL configuration, FALSE
                        \* for the default one
          options,      \* GrpcHttp2Channel.options
          hostUri       \* GrpcHttp2Channel.hostUri

elements == <<qml, data, metadata, configuration, options, hostUri>>
allVars == <<vars, elements>>

Null == "null"
ChannelOptions == {Mine, Other}     \* the objects the elements hold
OptionElements == ChannelOptions \cup {Calls}
NoUri == [scheme |-> "", port |-> -1]
Invalid == [scheme |-> "invalid", port |-> -1]

QmlInit ==
    /\ Init
    /\ qml \in BOOLEAN
    /\ data = [m \in Metadatas |-> <<>>]
    /\ metadata = [e \in OptionElements |-> Null]
    /\ configuration = [e \in ChannelOptions |-> FALSE]
    /\ options = Null
    /\ hostUri = NoUri

QmlCounted == edits < MaxQmlEdits /\ edits' = edits + 1

(* setData(): the values of a key are split and inserted one by one, and   *)
(* a QMultiHash has the newest first.                                      *)
Entries(entry) == [i \in DOMAIN entry[2] |-> <<entry[1], entry[2][i]>>]
MetadataOf(map) == Reverse(FlattenSeq([i \in DOMAIN map |-> Entries(map[i])]))

(* The channel's slot for the signals of its options element.              *)
SlipChannelOptionsUpdated(s, e) == s

ChannelOptionsUpdated(s, e) ==
    IF channel.exists /\ options = e THEN Assign(s, e, Channels) ELSE s

(* The slot of an options element for the signal of its metadata.          *)
MetadataUpdated(s, e, map) ==
    ChannelOptionsUpdated(Edited(s, e, LAMBDA p : WithMulti(p, MetadataOf(map))), e)

(* GrpcMetadata.data: every options element with this metadata is told.    *)
SetData(m, map) ==
    LET Told(s, e) == IF metadata[e] = m THEN MetadataUpdated(s, e, map) ELSE s
    IN  /\ QmlCounted
        /\ data[m] # map
        /\ data' = [data EXCEPT ![m] = map]
        /\ Becomes(Told(Told(Told(Store, Mine), Other), Calls))
        /\ UNCHANGED <<moved, channel, qml, metadata, configuration, options, hostUri>>

(* The property metadata of an options element.  Null only disconnects.    *)
SetMetadata(e, m) ==
    /\ metadata[e] # m
    /\ metadata' = [metadata EXCEPT ![e] = m]
    /\ Becomes(IF m = Null THEN Store ELSE MetadataUpdated(Store, e, data[m]))
    /\ UNCHANGED <<moved, channel, qml, data, configuration, options, hostUri>>

SetChannelMetadata(e, m) == QmlCounted /\ SetMetadata(e, m)

SetCallMetadata(m) == QmlCounted /\ SetMetadata(Calls, m)

(* The other properties; all but the deadline are told of when they change. *)
SetProperty(e, field, v) ==
    /\ QmlCounted
    /\ Becomes(ChannelOptionsUpdated(Edited(Store, e, LAMBDA p : Assigned(p, field, v)), e))
    /\ UNCHANGED <<moved, channel, qml, data, metadata, options, hostUri>>

SetDeadlineTimeout(e, v) == SetProperty(e, "deadline", v) /\ UNCHANGED configuration

SetCallDeadlineTimeout(v) ==
    SetProperty(Calls, "deadline", v) /\ UNCHANGED configuration

SetSerializationFormat(e, v) ==
    /\ payload[d[e]].format # v
    /\ SetProperty(e, "format", v)
    /\ UNCHANGED configuration

(* The options have a configuration from then on, also when the element    *)
(* goes back to the default one; which one is not told apart.              *)
SetSslConfiguration(e, v) ==
    /\ configuration[e] # v
    /\ configuration' = [configuration EXCEPT ![e] = v]
    /\ SetProperty(e, "ssl", TRUE)

(* GrpcHttp2Channel.options: the channel, if there is one, takes the new   *)
(* options at once; null leaves it with those it has.                      *)
SetOptions(e) ==
    /\ QmlCounted
    /\ options # e
    /\ options' = e
    /\ Becomes(IF e = Null \/ ~channel.exists THEN Store ELSE Assign(Store, e, Channels))
    /\ UNCHANGED <<moved, channel, qml, data, metadata, configuration, hostUri>>

(* updateChannel(): the options element's options, or the default ones,    *)
(* which the channel's own object has before there is a channel.           *)
UpdateChannel(uri, env) ==
    CreateChannel(IF options = Null THEN Channels ELSE options, uri, env)

(* GrpcHttp2Channel.hostUri cannot be changed once there is a channel, and *)
(* there is none for a URI that is not valid.                              *)
SetHostUri(uri) ==
    /\ hostUri # uri /\ ~channel.exists
    /\ hostUri' = uri
    /\ \/ uri = Invalid /\ UNCHANGED vars
       \/ uri # Invalid /\ \E env \in Environments : UpdateChannel(uri, env)
    /\ UNCHANGED <<qml, data, metadata, configuration, options>>

QmlNext ==
    \/ \E m \in Metadatas, map \in Datas : SetData(m, map)
    \/ \E m \in Metadatas \cup {Null} :
          SetCallMetadata(m) \/ \E e \in ChannelOptions : SetChannelMetadata(e, m)
    \/ \E e \in ChannelOptions :
          \/ \E v \in QmlFields.deadline : SetDeadlineTimeout(e, v)
          \/ \E v \in QmlFields.format : SetSerializationFormat(e, v)
          \/ \E v \in QmlFields.ssl : SetSslConfiguration(e, v)
    \/ \E v \in QmlFields.deadline : SetCallDeadlineTimeout(v)
    \/ \E e \in ChannelOptions \cup {Null} : SetOptions(e)
    \/ \E uri \in Uris \cup {Invalid} : SetHostUri(uri)

ConfigNext ==
    \/ ~qml /\ Next /\ UNCHANGED elements
    \/ qml /\ QmlNext

ConfigSpec == QmlInit /\ [][ConfigNext]_allVars
-----------------------------------------------------------------------------
(* What the elements say is what is used, in whatever order they were      *)
(* bound, shared, exchanged and changed: options have the metadata of      *)
(* their metadata element, and the channel has the options of its options  *)
(* element but for a format it negotiated itself.                          *)
ElementsInEffect ==
    /\ \A e \in OptionElements :
           metadata[e] # Null =>
               ToSet(payload[d[e]].multi) = ToSet(MetadataOf(data[metadata[e]]))
    /\ (channel.exists /\ options # Null) =>
           payload[d[Channels]] \in {payload[d[options]], Negotiated(payload[d[options]])}
=============================================================================

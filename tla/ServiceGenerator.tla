-------------------------- MODULE ServiceGenerator --------------------------
(***************************************************************************)
(* qtgrpcgen: from the services of a .proto file it prints a C++ client    *)
(* and, on demand, a QML client on top of it.  Four printers go over the   *)
(* same methods and choose templates by their streaming flags; the QML     *)
(* client also needs a class to write to the streams of the client.        *)
(***************************************************************************)
EXTENDS MessageGenerator

CONSTANTS Services,     \* the services of the file
          MethodNames,
          Types,        \* message types for methods: [name, file]
          MaxMethods    \* bound: methods of all services

VARIABLES methods,      \* the methods of the services, in the order of the file
          client,       \* the printed C++ client: header and source
          qmlClient     \* the printed QML client

serviceVars == <<methods, client, qmlClient>>
generatorVars == <<vars, serviceVars>>

OwnFile == "own"
HeaderOf(f) == <<f, "qpb.h">>
ClientHeader == <<OwnFile, "_client.grpc.qpb.h">>

MethodsOf(s) == SelectSeq(methods, LAMBDA m : m.service = s)
-----------------------------------------------------------------------------
(* produceMethodMap(). *)

stream_type(m) ==
    IF m.client /\ m.server THEN "Bidi"
    ELSE IF m.server THEN "Server"
    ELSE IF m.client THEN "Client" ELSE ""
StreamClass(type) == <<"QGrpc", type, "Stream">>
sender_class_name(m) == <<m.name, "Sender">>
sender_qml_name(m) == <<m.service>> \o sender_class_name(m)

(* A function has a name, parameters and a result.                         *)
Function(m, params, result) == [name |-> m.name, params |-> <<m.input>> \o params, result |-> result]
Overloads(m, result) == <<Function(m, <<>>, result), Function(m, <<"options">>, result)>>

ClientMethodDeclarationAsync(m) == Overloads(m, <<"QGrpcCallReply">>)
ClientMethodStreamDeclaration(m) == Overloads(m, StreamClass(stream_type(m)))

(* A body calls another function, or the one of QGrpcClientBase that makes *)
(* an RPC of a class, and sets or reads the type of the answer.            *)
Body(f, calls, answer) == [function |-> f, calls |-> calls, answer |-> answer]
Base(f) == [f EXCEPT !.name = "QGrpcClientBase"]
ClientMethodDefinitionAsync(m) ==
    LET f == Overloads(m, <<"QGrpcCallReply">>)
    IN  <<Body(f[1], f[2], {}), Body(f[2], Base(f[2]), {m.output})>>
ClientMethodStreamDefinition(m) ==
    LET f == Overloads(m, StreamClass(stream_type(m)))
    IN  <<Body(f[1], f[2], {}), Body(f[2], Base(f[2]), {m.output})>>

(* The parameters behind the message are callbacks and options.            *)
QmlFunction(m, callbacks, result) == Function(m, Append(callbacks, "options"), result)
Void == <<>>

ClientMethodDeclarationQml(m) == QmlFunction(m, <<"finish", "error">>, Void)
ServerStreamDeclarationQml(m) == QmlFunction(m, <<"message", "finish", "error">>, Void)
ClientStreamDeclarationQml(m) == QmlFunction(m, <<"finish", "error">>, sender_class_name(m))
BidiStreamDeclarationQml(m) == QmlFunction(m, <<"message", "finish", "error">>, sender_class_name(m))

(* A QML method calls the C++ one with options and hands what it returns   *)
(* to connections made for that kind, and to the sender it returns.        *)
QmlBody(f, connections, m) == Body(f, Function(m, <<"options">>, connections), {m.output})
ClientMethodDefinitionQml(m) ==
    QmlBody(QmlFunction(m, <<"finish", "error">>, Void), <<"QGrpcCallReply">>, m)
ServerStreamDefinitionQml(m) ==
    QmlBody(QmlFunction(m, <<"message", "finish", "error">>, Void), StreamClass("Server"), m)
ClientStreamDefinitionQml(m) ==
    QmlBody(QmlFunction(m, <<"finish", "error">>, sender_class_name(m)), StreamClass("Client"), m)
BidiStreamDefinitionQml(m) ==
    QmlBody(QmlFunction(m, <<"message", "finish", "error">>, sender_class_name(m)),
            StreamClass("Bidi"), m)

StreamSenderDeclaration(m) ==
    [name |-> sender_class_name(m), qmlName |-> sender_qml_name(m),
     on |-> StreamClass(stream_type(m)), writes |-> m.input]
-----------------------------------------------------------------------------
(* The printers, for one service. *)

ClientMethodsDeclaration(s) ==
    ForEach(MethodsOf(s), LAMBDA m :
        IF m.client \/ m.server THEN ClientMethodStreamDeclaration(m)
        ELSE ClientMethodDeclarationAsync(m))

ClientMethods(s) ==
    ForEach(MethodsOf(s), LAMBDA m :
        IF m.client \/ m.server THEN ClientMethodStreamDefinition(m)
        ELSE ClientMethodDefinitionAsync(m))

SlipStreamSenders(s) ==
    ForEach(MethodsOf(s), LAMBDA m :
        If(m.client /\ ~m.server, <<StreamSenderDeclaration(m)>>))

printStreamSenders(s) ==
    ForEach(MethodsOf(s), LAMBDA m : If(m.client, <<StreamSenderDeclaration(m)>>))

QmlMethodsDeclaration(s) ==
    ForEach(MethodsOf(s), LAMBDA m :
        <<IF m.server /\ m.client THEN BidiStreamDeclarationQml(m)
          ELSE IF m.server THEN ServerStreamDeclarationQml(m)
          ELSE IF m.client THEN ClientStreamDeclarationQml(m)
          ELSE ClientMethodDeclarationQml(m)>>)

QmlMethods(s) ==
    ForEach(MethodsOf(s), LAMBDA m :
        <<IF m.server /\ m.client THEN BidiStreamDefinitionQml(m)
          ELSE IF m.server THEN ServerStreamDefinitionQml(m)
          ELSE IF m.client THEN ClientStreamDefinitionQml(m)
          ELSE ClientMethodDefinitionQml(m)>>)
-----------------------------------------------------------------------------
(* The generator.  The files of the types of methods, and the file's own   *)
(* if it has messages.                                                     *)
GetInternalIncludes ==
    {HeaderOf(f) : f \in UNION {{m.input.file, m.output.file} : m \in ToSet(methods)} \ {OwnFile}}
    \cup {HeaderOf(OwnFile) : t \in {u \in Types : u.file = OwnFile}}

ServiceInit ==
    /\ file = [parent |-> [m \in MessageNames |-> NoMessage], fields |-> [m \in MessageNames |-> <<>>],
               variants |-> {}, at |-> {}, left |-> 0]
    /\ options = Nothing
    /\ header = Nothing /\ source = Nothing /\ registration = Nothing
    /\ phase = "services"
    /\ methods = <<>> /\ client = Nothing /\ qmlClient = Nothing

AddMethod(m) ==
    /\ phase = "services" /\ Len(methods) < MaxMethods
    /\ \A k \in DOMAIN methods : <<methods[k].service, methods[k].name>> # <<m.service, m.name>>
    /\ methods' = Append(methods, m)
    /\ UNCHANGED <<vars, client, qmlClient>>

GenerateQmlClientServices ==
    qmlClient' = [includes |-> {ClientHeader},
                  senders |-> [s \in Services |-> printStreamSenders(s)],
                  declared |-> [s \in Services |-> QmlMethodsDeclaration(s)],
                  defined |-> [s \in Services |-> QmlMethods(s)]]

(* Options that are not valid end the run; nothing is printed for a file   *)
(* without services.                                                       *)
GenerateClientServices ==
    /\ phase = "services"
    /\ options' \in Options
    /\ IF options'.exportMacro = "invalid" \/ Services = {}
       THEN phase' = "over" /\ UNCHANGED <<client, qmlClient>>
       ELSE /\ phase' = "generated"
            /\ IF options'.qml THEN GenerateQmlClientServices ELSE UNCHANGED qmlClient
            /\ client' = [includes |-> GetInternalIncludes
                                       \cup {<<"export.h">> : x \in {options'.exportMacro} \ {"none"}},
                          declared |-> [s \in Services |-> ClientMethodsDeclaration(s)],
                          defined |-> [s \in Services |-> ClientMethods(s)]]
    /\ UNCHANGED <<file, header, source, registration, methods>>

ServiceNext ==
    \/ \E s \in Services, n \in MethodNames, c, v \in BOOLEAN, i, o \in Types :
          AddMethod([service |-> s, name |-> n, client |-> c, server |-> v, input |-> i, output |-> o])
    \/ GenerateClientServices
    \/ Next /\ UNCHANGED serviceVars

(* Messages and services are generated by two tools, each run by protoc.   *)
GeneratorsSpec ==
    /\ \/ Init /\ methods = <<>> /\ client = Nothing /\ qmlClient = Nothing
       \/ ServiceInit
    /\ [][ServiceNext]_generatorVars
-----------------------------------------------------------------------------
(* The clients are complete and fit each other: every function declared is *)
(* defined once, with the same parameters and result; the C++ client calls *)
(* the base class for the kind of RPC it returns, with the type of the     *)
(* answer; the QML client has for every method one that calls an overload  *)
(* the C++ client has, connects it as what it is, hears of messages iff    *)
(* the server streams, and returns a sender iff the client streams, whose  *)
(* class is declared, once, for that stream and that message; every type   *)
(* that is named has its header included.                                  *)
ServicesComplete ==
    phase = "generated" => \A s \in Services :
        LET own == ToSet(MethodsOf(s))
            declared == client.declared[s]
            defined == client.defined[s]
            functions == [k \in DOMAIN defined |-> defined[k].function]
        IN  /\ functions = declared /\ IsInjective(declared)
            /\ Len(declared) = 2 * Cardinality(own)
            /\ \A b \in ToSet(defined) :
                  \/ b.calls = Base(b.function)
                  \/ b.calls.result = b.function.result /\ \E c \in ToSet(defined) :
                        c.function = b.calls /\ c.calls = Base(c.function)
            /\ \A m \in own : \E b \in ToSet(defined) : b.function.name = m.name /\ b.answer = {m.output}
            /\ \A m \in own : {HeaderOf(m.input.file), HeaderOf(m.output.file)} \subseteq client.includes
            /\ qmlClient # Nothing =>
                  LET senders == qmlClient.senders[s]
                      bodies == qmlClient.defined[s]
                  IN  /\ [k \in DOMAIN bodies |-> bodies[k].function] = qmlClient.declared[s]
                      /\ Len(bodies) = Len(MethodsOf(s))
                      /\ ClientHeader \in qmlClient.includes
                      /\ \A m \in own :
                            \E b \in ToSet(bodies) :
                                /\ b.function.name = m.name /\ b.answer = {m.output}
                                /\ b.calls \in ToSet(declared)
                                /\ ("message" \in ToSet(Tail(b.function.params))) = m.server
                                /\ (b.function.result # Void) = m.client
                                /\ m.client => Cardinality({k \in DOMAIN senders :
                                      /\ senders[k].name = b.function.result
                                      /\ senders[k].on = b.calls.result
                                      /\ senders[k].writes = m.input}) = 1
                      /\ IsInjective([k \in DOMAIN senders |-> senders[k].qmlName])

(* What the two generators print is complete.                              *)
GeneratedComplete == ClassesComplete /\ ServicesComplete
=============================================================================
